---- MODULE Spec2Model ----
(***************************************************************************)
(* State model of the mortgage simulator front-end: the Deal Timeline      *)
(* widget, the overpayment marker store with its chart interactions, and   *)
(* the debounced simulation calls of the page.                             *)
(*                                                                         *)
(* An optional value (null or a value) is a sequence of length 0 or 1.     *)
(***************************************************************************)
EXTENDS Integers, Sequences, FiniteSets, TLC

VARIABLES
    \* ---- Deal Timeline (DealTimeline component + MortgageForm fields) ----
    deals,            \* form field `deals`: sequence of [start_month, end_month, rate]
    termYears,        \* form field `term_years`, in hundredths of a year
    fixed_rate,       \* form legacy field, synced in the DealTimeline onChange
    fixed_term_months,\* form legacy field, synced in the DealTimeline onChange
    dragState,        \* DealTimeline drag session: <<>> or <<[dealIndex, type, startX, originalDeal]>>
    \* ---- overpayment store (zustand) ----
    chartOverpayments,   \* sequence of [id, periodIndex, amount, isDragging]
    editingId,           \* <<>> or <<id>>
    startDate,           \* <<>> or <<date>>: the store's startDate
    nextId,              \* number of ids generateId has handed out
    \* ---- InteractiveBalanceChart and OverpaymentPopover ----
    pendingOverpayment,  \* <<>> or <<marker>>: the popover is open on it
    isNewOverpayment,
    chartDragState,      \* [isDragging, overpaymentId]
    inputValue,          \* popover text field, a sequence of characters
    error,               \* popover validation message: <<>> or <<message>>
    \* ---- MortgageForm auto-submit ----
    mortgage_amount,     \* form field `mortgage_amount`
    isValid,             \* form validity (formState.isValid)
    debounceRef,         \* pending form timer: <<>> or <<[due, data, seq]>>
    lastSubmittedRef,    \* <<>> (the empty string) or <<JSON of the data last submitted>>
    savedSnapshot,       \* localStorage item 'mortgasim-form-values': <<>> or <<[wellFormed, data]>>
    formValues,          \* values the form was mounted with: <<>> (not mounted) or <<values>>
    snapshotAtLoad,      \* the localStorage item the form found when it was mounted
    urlValues,           \* prop `initialValues` of the mounted form: <<>> or <<values>>
    shareData,           \* form state a link is made of: <<>> or <<[birth_year, mortgage_amount, name]>>
    shareUrl,            \* the share link, from the path on: <<>> or <<text>>
    decoded,             \* what the page read from the link: <<>> or <<object>>
    \* ---- chartSetup: period index <-> date ----
    periodArg,           \* period index handed to periodIndexToDate: 0 (none yet) or p >= 1
    dateResult,          \* <<>> or <<the Date periodIndexToDate returned>>
    indexResult,         \* <<>> or <<the index dateToPeriodIndex returned for that Date>>
    \* ---- InteractiveBalanceChart touch handlers ----
    touchStartPosRef,    \* <<>> (null) or <<[x, y]>>
    longPressTimerRef,   \* <<>> (null) or <<[x, due]>>: the pending long-press timer
    touchActive,         \* a finger is on the canvas
    touchHeld,           \* milliseconds since the last touchstart
    touchMovedFar,       \* the touch has been more than 10 px away from where it started
    pendingClick,        \* click the browser dispatches after a tap: <<>> or <<x>>
    \* ---- MortgageSimulation page and useDebouncedSimulation ----
    lastSimulationRequest, \* <<>> or <<request>>
    prevOverpaymentsRef, \* last overpayment string seen by the page: <<>> or <<string>>
    timeoutRef,          \* pending timer of the hook: <<>> or <<[due, request, seq]>>
    simulationResults,   \* <<>> or <<[seq, request]>>: the response on display
    simulationError,     \* error of the hook (mutation.error): <<>> or <<seq of the failed call>>
    answered,            \* log of the responses in arrival order: [seq, ok]
    inFlight,            \* calls sent to the API and not answered yet
    sent,                \* log of the calls issued: [seq, time, request, via]
    now,                 \* clock, in milliseconds
    nextSeq,             \* number of calls scheduled or issued so far
    lastEventAt,         \* time of the last form change
    burstValid,          \* the form stayed valid over the form changes less than 500 ms apart
    superseded,          \* calls that were pending when a later form or overpayment change arrived
    pendingAtImmediate   \* calls that were pending in the hook when mutate() ran

dealVars == <<deals, termYears, fixed_rate, fixed_term_months, dragState>>

storeVars == <<chartOverpayments, editingId, startDate, nextId>>

chartVars == <<pendingOverpayment, isNewOverpayment, chartDragState, inputValue, error>>

loadVars == <<savedSnapshot, formValues, snapshotAtLoad, urlValues>>

shareVars == <<shareData, shareUrl, decoded>>

utilVars == <<periodArg, dateResult, indexResult>>

touchVars == <<touchStartPosRef, longPressTimerRef, touchActive, touchHeld,
               touchMovedFar, pendingClick>>

formVars == <<mortgage_amount, isValid, debounceRef, lastSubmittedRef, loadVars, shareVars,
              utilVars, touchVars>>

pageVars == <<lastSimulationRequest, prevOverpaymentsRef, timeoutRef, simulationResults,
              inFlight, sent, now, nextSeq, lastEventAt, burstValid,
              superseded, pendingAtImmediate, simulationError, answered>>

vars == <<dealVars, storeVars, chartVars, formVars, pageVars>>

----------------------------------------------------------------------------
(* Bounds and input sets *)

MaxDeals == 3

\* rates typed by the user, in percent
RateInputs == {1, 2}

\* term_years typed in the form: 0.5 years
TermYearsInputs == {50}

\* values typed in the start/end month fields of the companion list
MonthInputs == {-1, 0, 1, 2, 3, 4, 5, 6, 7}

----------------------------------------------------------------------------
(* Helpers *)

Min(a, b) == IF a < b THEN a ELSE b
Max(a, b) == IF a > b THEN a ELSE b

\* Math.round for a non-negative quotient n / d
RoundDiv(n, d) == (2 * n + d) \div (2 * d)

\* stable insertion sort of a sequence by a key (Array.prototype.sort with
\* comparator a.key - b.key)
RECURSIVE InsertByKey(_, _, _)
InsertByKey(s, e, key) ==
    IF s = <<>> THEN <<e>>
    ELSE IF e[key] < Head(s)[key] THEN <<e>> \o s
    ELSE <<Head(s)>> \o InsertByKey(Tail(s), e, key)

RECURSIVE SortByKey(_, _)
SortByKey(s, key) ==
    IF s = <<>> THEN <<>>
    ELSE InsertByKey(SortByKey(SubSeq(s, 1, Len(s) - 1), key), s[Len(s)], key)

RemoveAt(s, i) == SubSeq(s, 1, i - 1) \o SubSeq(s, i + 1, Len(s))

----------------------------------------------------------------------------
(* Deal Timeline *)

\* width of the timeline element in pixels; its left edge is at clientX 0
TimelineWidth == 6

\* Math.round(termYears * 12)
termMonths == RoundDiv(termYears * 12, 100)

percentToMonth(percentX) ==
    \* percentX is the percentage expressed as a pixel offset of TimelineWidth
    Max(0, Min(termMonths, RoundDiv(percentX * termMonths, TimelineWidth)))

getMouseMonthPosition(clientX) ==
    percentToMonth(Max(0, Min(TimelineWidth, clientX)))

\* variant of findFirstGap that proposes the whole gap
findFirstGap_NoCap ==
    LET sorted == SortByKey(deals, "start_month")
        n == Len(sorted)
        between == {i \in 1..(n - 1) : sorted[i].end_month < sorted[i + 1].start_month}
    IN  IF n = 0 \/ sorted[1].start_month > 0
        THEN <<[start |-> 0, end |-> IF n > 0 THEN sorted[1].start_month ELSE termMonths]>>
        ELSE IF between # {}
        THEN LET i == CHOOSE j \in between : \A k \in between : j <= k
             IN  <<[start |-> sorted[i].end_month, end |-> sorted[i + 1].start_month]>>
        ELSE IF sorted[n].end_month < termMonths
        THEN <<[start |-> sorted[n].end_month, end |-> termMonths]>>
        ELSE <<>>

findFirstGap ==
    LET sorted == SortByKey(deals, "start_month")
        n == Len(sorted)
        between == {i \in 1..(n - 1) : sorted[i].end_month < sorted[i + 1].start_month}
    IN  IF n = 0 \/ sorted[1].start_month > 0
        THEN LET gapEnd == IF n > 0 THEN sorted[1].start_month ELSE termMonths
             IN  <<[start |-> 0, end |-> Min(gapEnd, 24)]>>
        ELSE IF between # {}
        THEN LET i == CHOOSE j \in between : \A k \in between : j <= k
                 gapStart == sorted[i].end_month
                 gapEnd == sorted[i + 1].start_month
             IN  <<[start |-> gapStart, end |-> Min(gapEnd, gapStart + 24)]>>
        ELSE IF sorted[n].end_month < termMonths
        THEN <<[start |-> sorted[n].end_month,
                end |-> Min(termMonths, sorted[n].end_month + 24)]>>
        ELSE <<>>

\* variant of wouldOverlap that only sees a deal whose start lies inside another
wouldOverlap_StartOnly(newDeal, excludeIndex) ==
    \E i \in 1..Len(deals) :
        /\ i # excludeIndex
        /\ newDeal.start_month < deals[i].end_month
        /\ newDeal.start_month >= deals[i].start_month

wouldOverlap(newDeal, excludeIndex) ==
    \E i \in 1..Len(deals) :
        /\ i # excludeIndex
        /\ newDeal.start_month < deals[i].end_month
        /\ newDeal.end_month > deals[i].start_month

\* variant of onChange that leaves the legacy fields alone when no deal is left
onChange_KeepLegacy(newDeals) ==
    /\ deals' = newDeals
    /\ IF Len(newDeals) > 0
       THEN /\ fixed_rate' = newDeals[1].rate
            /\ fixed_term_months' = newDeals[1].end_month
       ELSE UNCHANGED <<fixed_rate, fixed_term_months>>

\* MortgageForm's onChange of the DealTimeline: stores the deals and syncs the
\* legacy fields from the first element
onChange(newDeals) ==
    /\ deals' = newDeals
    /\ IF Len(newDeals) > 0
       THEN /\ fixed_rate' = newDeals[1].rate
            /\ fixed_term_months' = newDeals[1].end_month
       ELSE /\ fixed_rate' = 0
            /\ fixed_term_months' = 0

\* monthToPercent, as the pixel offset at which a month is rendered
monthToPercent(month) == RoundDiv(month * TimelineWidth, termMonths)

\* where a pointer-down on a deal can land: the body of its box for a move,
\* the handle at its left or right edge for a resize
GrabPixels(d, type) ==
    IF type = "move" THEN {RoundDiv((d.start_month + d.end_month) * TimelineWidth, 2 * termMonths)}
    ELSE IF type = "resize-start" THEN {monthToPercent(d.start_month)}
    ELSE {monthToPercent(d.end_month)}

handleMouseDown(dealIndex, type, clientX) ==
    /\ dragState = <<>>
    /\ dealIndex \in 1..Len(deals)
    /\ clientX \in GrabPixels(deals[dealIndex], type)
    /\ dragState' = <<[dealIndex |-> dealIndex, type |-> type, startX |-> clientX,
                       originalDeal |-> deals[dealIndex]]>>
    /\ UNCHANGED <<storeVars, chartVars, formVars, pageVars>>
    /\ UNCHANGED <<deals, termYears, fixed_rate, fixed_term_months>>

\* variant of DraggedDeal whose move does not clamp the end to the term
DraggedDeal_NoClamp(ds, clientX) ==
    LET currentMonth == getMouseMonthPosition(clientX)
        originalDeal == ds.originalDeal
    IN  IF ds.type = "move"
        THEN LET delta == currentMonth - getMouseMonthPosition(ds.startX)
                 newStart == Max(0, originalDeal.start_month + delta)
             IN  [originalDeal EXCEPT
                    !.start_month = newStart,
                    !.end_month = newStart + originalDeal.end_month - originalDeal.start_month]
        ELSE IF ds.type = "resize-start"
        THEN [originalDeal EXCEPT
                !.start_month = Max(0, Min(originalDeal.end_month - 1, currentMonth))]
        ELSE [originalDeal EXCEPT
                !.end_month = Min(termMonths, Max(originalDeal.start_month + 1, currentMonth))]

\* variant of DraggedDeal whose move clamps the end but keeps the unclamped start
DraggedDeal_NoReadjust(ds, clientX) ==
    LET currentMonth == getMouseMonthPosition(clientX)
        originalDeal == ds.originalDeal
    IN  IF ds.type = "move"
        THEN LET delta == currentMonth - getMouseMonthPosition(ds.startX)
                 newStart == Max(0, originalDeal.start_month + delta)
                 duration == originalDeal.end_month - originalDeal.start_month
             IN  [originalDeal EXCEPT !.start_month = newStart,
                                      !.end_month = Min(termMonths, newStart + duration)]
        ELSE IF ds.type = "resize-start"
        THEN [originalDeal EXCEPT
                !.start_month = Max(0, Min(originalDeal.end_month - 1, currentMonth))]
        ELSE [originalDeal EXCEPT
                !.end_month = Min(termMonths, Max(originalDeal.start_month + 1, currentMonth))]

\* variant of DraggedDeal that applies the displacement to the deal as it is now
DraggedDeal_FromLive(ds, clientX) ==
    LET currentMonth == getMouseMonthPosition(clientX)
        liveDeal == IF ds.dealIndex \in 1..Len(deals) THEN deals[ds.dealIndex]
                    ELSE ds.originalDeal
    IN  IF ds.type = "move"
        THEN LET startMonth == getMouseMonthPosition(ds.startX)
                 delta == currentMonth - startMonth
                 newStart == Max(0, liveDeal.start_month + delta)
                 duration == liveDeal.end_month - liveDeal.start_month
                 newEnd == Min(termMonths, newStart + duration)
                 adjustedStart == newEnd - duration
             IN  [liveDeal EXCEPT !.start_month = Max(0, adjustedStart),
                                  !.end_month = newEnd]
        ELSE IF ds.type = "resize-start"
        THEN [liveDeal EXCEPT
                !.start_month = Max(0, Min(liveDeal.end_month - 1, currentMonth))]
        ELSE [liveDeal EXCEPT
                !.end_month = Min(termMonths, Max(liveDeal.start_month + 1, currentMonth))]

\* the deal a pointer-move proposes, from the drag snapshot and the pointer
DraggedDeal(ds, clientX) ==
    LET currentMonth == getMouseMonthPosition(clientX)
        originalDeal == ds.originalDeal
    IN  IF ds.type = "move"
        THEN LET startMonth == getMouseMonthPosition(ds.startX)
                 delta == currentMonth - startMonth
                 newStart == Max(0, originalDeal.start_month + delta)
                 duration == originalDeal.end_month - originalDeal.start_month
                 newEnd == Min(termMonths, newStart + duration)
                 adjustedStart == newEnd - duration
             IN  [originalDeal EXCEPT !.start_month = Max(0, adjustedStart),
                                      !.end_month = newEnd]
        ELSE IF ds.type = "resize-start"
        THEN [originalDeal EXCEPT
                !.start_month = Max(0, Min(originalDeal.end_month - 1, currentMonth))]
        ELSE [originalDeal EXCEPT
                !.end_month = Min(termMonths, Max(originalDeal.start_month + 1, currentMonth))]

handleMouseMove(clientX) ==
    /\ dragState # <<>>
    /\ LET ds == dragState[1]
           newDeal == DraggedDeal(ds, clientX)
       IN  IF ~wouldOverlap(newDeal, ds.dealIndex)
           THEN onChange([deals EXCEPT ![ds.dealIndex] = newDeal])
           ELSE UNCHANGED <<deals, fixed_rate, fixed_term_months>>
    /\ UNCHANGED <<storeVars, chartVars, formVars, pageVars>>
    /\ UNCHANGED <<termYears, dragState>>

handleMouseUp ==
    /\ dragState # <<>>
    /\ dragState' = <<>>
    /\ UNCHANGED <<storeVars, chartVars, formVars, pageVars>>
    /\ UNCHANGED <<deals, termYears, fixed_rate, fixed_term_months>>

handleDeleteDeal(index) ==
    /\ dragState = <<>>
    /\ index \in 1..Len(deals)
    /\ onChange(RemoveAt(deals, index))
    /\ UNCHANGED <<storeVars, chartVars, formVars, pageVars>>
    /\ UNCHANGED <<termYears, dragState>>

\* "Add" in the Add Deal dialog; newDealRate is the rate typed in the dialog
handleAddDeal(newDealRate) ==
    /\ dragState = <<>>
    /\ Len(deals) < MaxDeals
    /\ LET gap == findFirstGap
       IN  IF gap = <<>>
           THEN UNCHANGED <<deals, fixed_rate, fixed_term_months>>
           ELSE onChange(SortByKey(Append(deals,
                    [start_month |-> gap[1].start, end_month |-> gap[1].end,
                     rate |-> newDealRate]), "start_month"))
    /\ UNCHANGED <<storeVars, chartVars, formVars, pageVars>>
    /\ UNCHANGED <<termYears, dragState>>

\* variant of handleListFieldChange without the test of end_month against the term
handleListFieldChange_NoUpperBound(index, field, value) ==
    /\ dragState = <<>>
    /\ index \in 1..Len(deals)
    /\ LET updated == [deals[index] EXCEPT ![field] = value]
       IN  IF \/ updated.end_month <= updated.start_month
              \/ updated.start_month < 0
              \/ wouldOverlap(updated, index)
           THEN UNCHANGED <<deals, fixed_rate, fixed_term_months>>
           ELSE onChange([deals EXCEPT ![index] = updated])
    /\ UNCHANGED <<storeVars, chartVars, formVars, pageVars>>
    /\ UNCHANGED <<termYears, dragState>>

handleListFieldChange(index, field, value) ==
    /\ dragState = <<>>
    /\ index \in 1..Len(deals)
    /\ LET updated == [deals[index] EXCEPT ![field] = value]
       IN  IF \/ updated.end_month <= updated.start_month
              \/ updated.start_month < 0
              \/ updated.end_month > termMonths
              \/ wouldOverlap(updated, index)
           THEN UNCHANGED <<deals, fixed_rate, fixed_term_months>>
           ELSE onChange([deals EXCEPT ![index] = updated])
    /\ UNCHANGED <<storeVars, chartVars, formVars, pageVars>>
    /\ UNCHANGED <<termYears, dragState>>

----------------------------------------------------------------------------
(* Text: a string is a sequence of characters *)

DigitChars == <<"0", "1", "2", "3", "4", "5", "6", "7", "8", "9">>

IsDigit(c) == \E d \in 1..10 : DigitChars[d] = c

DigitValue(c) == (CHOOSE d \in 1..10 : DigitChars[d] = c) - 1

\* Number.prototype.toString for an integer
RECURSIVE NatToString(_)
NatToString(n) ==
    IF n < 10 THEN <<DigitChars[n + 1]>>
    ELSE NatToString(n \div 10) \o <<DigitChars[(n % 10) + 1]>>

NumberToString(n) == IF n < 0 THEN <<"-">> \o NatToString(0 - n) ELSE NatToString(n)

\* value of the longest prefix of digits of s, given the value acc read so far
RECURSIVE DigitsPrefixValue(_, _)
DigitsPrefixValue(s, acc) ==
    IF s = <<>> \/ ~IsDigit(Head(s)) THEN acc
    ELSE DigitsPrefixValue(Tail(s), 10 * acc + DigitValue(Head(s)))

\* parseFloat on integer numerals: <<>> is NaN, <<n>> the number read from the
\* longest numeric prefix
parseFloat(s) ==
    LET neg == s # <<>> /\ Head(s) = "-"
        body == IF neg THEN Tail(s) ELSE s
    IN  IF body = <<>> \/ ~IsDigit(Head(body)) THEN <<>>
        ELSE <<(IF neg THEN -1 ELSE 1) * DigitsPrefixValue(body, 0)>>

\* Array.prototype.join(',') of a sequence of strings
RECURSIVE JoinComma(_)
JoinComma(parts) ==
    IF parts = <<>> THEN <<>>
    ELSE IF Len(parts) = 1 THEN parts[1]
    ELSE parts[1] \o <<",">> \o JoinComma(Tail(parts))

RECURSIVE SelectSeqPositive(_)
SelectSeqPositive(ops) ==
    IF ops = <<>> THEN <<>>
    ELSE IF Head(ops).amount > 0 THEN <<Head(ops)>> \o SelectSeqPositive(Tail(ops))
    ELSE SelectSeqPositive(Tail(ops))

----------------------------------------------------------------------------
(* Variable-rate zones of the timeline *)

\* variant of ZonesFrom without the zone after the last deal
RECURSIVE ZonesFrom_NoTail(_, _)
ZonesFrom_NoTail(sortedDeals, cursor) ==
    IF sortedDeals = <<>> THEN <<>>
    ELSE (IF Head(sortedDeals).start_month > cursor
          THEN <<[start |-> cursor, end |-> Head(sortedDeals).start_month]>>
          ELSE <<>>)
         \o ZonesFrom_NoTail(Tail(sortedDeals), Max(cursor, Head(sortedDeals).end_month))

svrZones_NoTail == ZonesFrom_NoTail(SortByKey(deals, "start_month"), 0)

\* the loop over the sorted deals from a cursor on, and the zone pushed after it
RECURSIVE ZonesFrom(_, _)
ZonesFrom(sortedDeals, cursor) ==
    IF sortedDeals = <<>>
    THEN IF cursor < termMonths THEN <<[start |-> cursor, end |-> termMonths]>> ELSE <<>>
    ELSE (IF Head(sortedDeals).start_month > cursor
          THEN <<[start |-> cursor, end |-> Head(sortedDeals).start_month]>>
          ELSE <<>>)
         \o ZonesFrom(Tail(sortedDeals), Max(cursor, Head(sortedDeals).end_month))

svrZones == ZonesFrom(SortByKey(deals, "start_month"), 0)

----------------------------------------------------------------------------
(* Calendar dates: a Date is a record of getFullYear(), getMonth() (0..11) and
   getDate(), read in a time zone without offset; a date string is the sequence
   of the characters of "YYYY-MM-DD" *)

\* the form's start_date string for a calendar day (month 1..12)
IsoDate(year, month, day) ==
    << DigitChars[((year \div 1000) % 10) + 1], DigitChars[((year \div 100) % 10) + 1],
       DigitChars[((year \div 10) % 10) + 1], DigitChars[(year % 10) + 1], "-",
       DigitChars[(month \div 10) + 1], DigitChars[(month % 10) + 1], "-",
       DigitChars[(day \div 10) + 1], DigitChars[(day % 10) + 1] >>

\* new Date(startDate)
newDate(s) ==
    [year  |-> DigitValue(s[1]) * 1000 + DigitValue(s[2]) * 100 + DigitValue(s[3]) * 10 + DigitValue(s[4]),
     month |-> DigitValue(s[6]) * 10 + DigitValue(s[7]) - 1,
     day   |-> DigitValue(s[9]) * 10 + DigitValue(s[10])]

DaysInMonth(year, month) ==
    IF month = 1
    THEN IF year % 4 = 0 /\ (year % 100 # 0 \/ year % 400 = 0) THEN 29 ELSE 28
    ELSE IF month \in {3, 5, 8, 10} THEN 30 ELSE 31

\* Date.prototype.setMonth: a month outside 0..11 carries into the year, and a
\* day the month does not have carries into the next month
setMonth(date, month) ==
    LET y   == date.year + (month \div 12)
        m   == month % 12
        dim == DaysInMonth(y, m)
    IN  IF date.day <= dim
        THEN [year |-> y, month |-> m, day |-> date.day]
        ELSE [year  |-> y + ((m + 1) \div 12), month |-> (m + 1) % 12,
              day   |-> date.day - dim]

periodIndexToDate(periodIndex, start) ==
    setMonth(newDate(start), newDate(start).month + periodIndex - 1)

dateToPeriodIndex(date, start) ==
    LET monthsDiff == (date.year - newDate(start).year) * 12
                        + (date.month - newDate(start).month)
    IN  monthsDiff + 1

MonthShort == <<"Jan", "Feb", "Mar", "Apr", "May", "Jun",
                "Jul", "Aug", "Sep", "Oct", "Nov", "Dec">>

\* toLocaleDateString('en-GB', {month: 'short', year: 'numeric'})
formatDateLabel(date) == MonthShort[date.month + 1] \o " " \o ToString(date.year)

generateDateLabel(periodIndex, start) ==
    formatDateLabel(periodIndexToDate(periodIndex, start))

----------------------------------------------------------------------------
(* Overpayment store *)

MarkerIndices == 1..Len(chartOverpayments)

HasId(id) == \E i \in MarkerIndices : chartOverpayments[i].id = id

\* Array.prototype.find by periodIndex: <<>> or <<first match>>
getOverpaymentAtPeriod(periodIndex) ==
    LET hits == {i \in MarkerIndices : chartOverpayments[i].periodIndex = periodIndex}
    IN  IF hits = {} THEN <<>>
        ELSE <<chartOverpayments[CHOOSE i \in hits : \A j \in hits : i <= j]>>

\* the store state after setStartDate(date)
setStartDate_KeepLabels(date) ==
    /\ startDate' = <<date>>
    /\ UNCHANGED <<chartOverpayments, editingId, nextId>>

\* the store state after setStartDate(date): every marker gets the label of its
\* period under the new date
setStartDate(date) ==
    /\ startDate' = <<date>>
    /\ chartOverpayments' =
          [i \in MarkerIndices |->
              [chartOverpayments[i] EXCEPT
                  !.dateLabel = generateDateLabel(chartOverpayments[i].periodIndex, date)]]
    /\ UNCHANGED <<editingId, nextId>>

\* variant of AddResult that never looks for a marker at the period
AddResult_AlwaysNew(periodIndex, amount) ==
    IF startDate = <<>>
    THEN [ops |-> chartOverpayments, editing |-> editingId, ids |-> nextId]
    ELSE [ops |-> SortByKey(Append(chartOverpayments,
                    [id |-> nextId + 1, periodIndex |-> periodIndex,
                     amount |-> amount,
                     dateLabel |-> generateDateLabel(periodIndex, startDate[1]),
                     isDragging |-> FALSE]), "periodIndex"),
          editing |-> <<nextId + 1>>,
          ids |-> nextId + 1]

\* the collection and editingId after addOverpayment(periodIndex, amount)
AddResult(periodIndex, amount) ==
    LET existing == getOverpaymentAtPeriod(periodIndex)
    IN  IF startDate = <<>>
        THEN [ops |-> chartOverpayments, editing |-> editingId, ids |-> nextId]
        ELSE IF existing # <<>>
        THEN [ops |-> [i \in MarkerIndices |->
                        IF chartOverpayments[i].id = existing[1].id
                        THEN [chartOverpayments[i] EXCEPT !.amount = amount]
                        ELSE chartOverpayments[i]],
              editing |-> <<existing[1].id>>,
              ids |-> nextId]
        ELSE [ops |-> SortByKey(Append(chartOverpayments,
                        [id |-> nextId + 1, periodIndex |-> periodIndex,
                         amount |-> amount,
                         dateLabel |-> generateDateLabel(periodIndex, startDate[1]),
                         isDragging |-> FALSE]), "periodIndex"),
              editing |-> <<nextId + 1>>,
              ids |-> nextId + 1]

addOverpayment(periodIndex, amount) ==
    /\ chartOverpayments' = AddResult(periodIndex, amount).ops
    /\ editingId' = AddResult(periodIndex, amount).editing
    /\ nextId' = AddResult(periodIndex, amount).ids
    /\ UNCHANGED startDate

\* { ...op, ...updates } with the label recomputed when the update carries a
\* period and the store has a start date
Updated(op, updates) ==
    LET merged == [f \in DOMAIN op |-> IF f \in DOMAIN updates THEN updates[f] ELSE op[f]]
    IN  IF "periodIndex" \in DOMAIN updates /\ startDate # <<>>
        THEN [merged EXCEPT !.dateLabel = generateDateLabel(updates.periodIndex, startDate[1])]
        ELSE merged

\* variant of UpdateResult that leaves the collection in its order
UpdateResult_NoSort(id, updates) ==
    [i \in MarkerIndices |->
        IF chartOverpayments[i].id # id THEN chartOverpayments[i]
        ELSE Updated(chartOverpayments[i], updates)]

\* the collection after updateOverpayment(id, updates); updates is a record
\* with some of the fields periodIndex, amount
UpdateResult(id, updates) ==
    SortByKey([i \in MarkerIndices |->
                 IF chartOverpayments[i].id # id THEN chartOverpayments[i]
                 ELSE Updated(chartOverpayments[i], updates)],
              "periodIndex")

updateOverpayment(id, updates) ==
    /\ chartOverpayments' = UpdateResult(id, updates)
    /\ UNCHANGED <<editingId, startDate, nextId>>

RECURSIVE WithoutId(_, _)
WithoutId(ops, id) ==
    IF ops = <<>> THEN <<>>
    ELSE IF Head(ops).id = id THEN WithoutId(Tail(ops), id)
    ELSE <<Head(ops)>> \o WithoutId(Tail(ops), id)

removeOverpayment(id) ==
    /\ chartOverpayments' = WithoutId(chartOverpayments, id)
    /\ editingId' = IF editingId = <<id>> THEN <<>> ELSE editingId
    /\ UNCHANGED <<startDate, nextId>>

setEditingId(id) ==
    /\ editingId' = id
    /\ UNCHANGED <<chartOverpayments, startDate, nextId>>

\* the collection after setDragging(id, flag)
DraggingResult(ops, id, flag) ==
    [i \in 1..Len(ops) |->
        IF ops[i].id = id THEN [ops[i] EXCEPT !.isDragging = flag] ELSE ops[i]]

setDragging(id, flag) ==
    /\ chartOverpayments' = DraggingResult(chartOverpayments, id, flag)
    /\ UNCHANGED <<editingId, startDate, nextId>>

clearAll ==
    /\ chartOverpayments' = <<>>
    /\ editingId' = <<>>
    /\ UNCHANGED <<startDate, nextId>>

\* toApiString() on the collection ops: <<>> is null, <<s>> the string s
ApiStringOf(ops) ==
    IF Len(ops) = 0 THEN <<>>
    ELSE LET positive == SelectSeqPositive(ops)
         IN  <<JoinComma([i \in 1..Len(positive) |->
                            NumberToString(positive[i].periodIndex) \o <<":">>
                                \o NumberToString(positive[i].amount)])>>

toApiString == ApiStringOf(chartOverpayments)

----------------------------------------------------------------------------
(* InteractiveBalanceChart: pointer handlers *)

\* threshold in pixels for hitting a marker line
LINE_HIT_THRESHOLD == 20

\* the chart's time scale: pixels per month, with period 1 drawn at pixel 0
PixelsPerMonth == 20

\* last period index of the simulation (property maxPeriod of the chart)
MaxPeriod == 3

maxPeriod == MaxPeriod

chartAreaLeft == 0
chartAreaRight == maxPeriod * PixelsPerMonth

\* pointer positions on the canvas
ChartXs == {x \in (0 - PixelsPerMonth)..(chartAreaRight + PixelsPerMonth) : x % 10 = 0}

pixelToPeriodIndex(pixelX) ==
    Max(1, Min(maxPeriod, (pixelX \div PixelsPerMonth) + 1))

periodIndexToPixel(periodIndex) == (periodIndex - 1) * PixelsPerMonth

Abs(n) == IF n < 0 THEN 0 - n ELSE n

\* <<>> or <<the first marker within the hit threshold of pixelX>>
findOverpaymentAtPixel(pixelX) ==
    LET hits == {i \in MarkerIndices :
                    Abs(pixelX - periodIndexToPixel(chartOverpayments[i].periodIndex))
                        < LINE_HIT_THRESHOLD}
    IN  IF hits = {} THEN <<>>
        ELSE <<chartOverpayments[CHOOSE i \in hits : \A j \in hits : i <= j]>>

\* OverpaymentPopover's effect on a change of the marker it shows
PopoverReset(op) ==
    /\ inputValue' = IF op.amount > 0 THEN NumberToString(op.amount) ELSE <<>>
    /\ error' = <<>>

\* the chart and the store after handleChartClick at x
ChartClicked(x) ==
    /\ pendingOverpayment = <<>>
    /\ IF chartDragState.isDragging \/ x < chartAreaLeft \/ x > chartAreaRight
       THEN UNCHANGED <<storeVars, chartVars>>
       ELSE LET existingOp == findOverpaymentAtPixel(x)
            IN  IF existingOp # <<>>
                THEN /\ pendingOverpayment' = existingOp
                     /\ isNewOverpayment' = FALSE
                     /\ setEditingId(<<existingOp[1].id>>)
                     /\ PopoverReset(existingOp[1])
                     /\ UNCHANGED chartDragState
                ELSE /\ pendingOverpayment' =
                            <<[id |-> 0, periodIndex |-> pixelToPeriodIndex(x),
                               amount |-> 0,
                               dateLabel |-> formatDateLabel(
                                   periodIndexToDate(pixelToPeriodIndex(x), startDate[1])),
                               isDragging |-> FALSE]>>
                     /\ isNewOverpayment' = TRUE
                     /\ inputValue' = <<>>
                     /\ error' = <<>>
                     /\ UNCHANGED <<storeVars, chartDragState>>

handleChartClick(x) ==
    /\ ChartClicked(x)
    /\ UNCHANGED <<formVars, pageVars, dealVars>>

handleChartMouseDown(x) ==
    /\ pendingOverpayment = <<>>
    /\ LET overpayment == findOverpaymentAtPixel(x)
       IN  IF overpayment # <<>>
           THEN /\ chartDragState' = [isDragging |-> TRUE,
                                      overpaymentId |-> <<overpayment[1].id>>]
                /\ setDragging(overpayment[1].id, TRUE)
           ELSE UNCHANGED <<storeVars, chartDragState>>
    /\ UNCHANGED <<formVars, pageVars, dealVars, pendingOverpayment, isNewOverpayment, inputValue, error>>

handleChartMouseMove(x) ==
    /\ pendingOverpayment = <<>>
    /\ IF chartDragState.isDragging /\ chartDragState.overpaymentId # <<>>
       THEN updateOverpayment(chartDragState.overpaymentId[1],
                              [periodIndex |-> pixelToPeriodIndex(x)])
       ELSE UNCHANGED storeVars
    /\ UNCHANGED <<formVars, pageVars, dealVars, chartVars, formVars, pageVars>>

handleChartMouseUp ==
    /\ pendingOverpayment = <<>>
    /\ IF chartDragState.isDragging /\ chartDragState.overpaymentId # <<>>
       THEN setDragging(chartDragState.overpaymentId[1], FALSE)
       ELSE UNCHANGED storeVars
    /\ chartDragState' = [isDragging |-> FALSE, overpaymentId |-> <<>>]
    /\ UNCHANGED <<formVars, pageVars, dealVars, pendingOverpayment, isNewOverpayment, inputValue, error>>

----------------------------------------------------------------------------
(* Touch handlers of the chart: one finger, followed from touchstart to touchend *)

\* delay of the long-press timer, in milliseconds
LongPressMs == 500

\* distance from the start, in pixels, beyond which a move cancels the long press
MoveThreshold == 10

\* longest hold followed
MaxHold == 700

\* what the touch handlers leave alone
TouchFrame ==
    UNCHANGED <<dealVars, pageVars, mortgage_amount, isValid, debounceRef, lastSubmittedRef,
                loadVars, shareVars, utilVars>>

FarFrom(pos, x, y) ==
    Abs(x - pos.x) > MoveThreshold \/ Abs(y - pos.y) > MoveThreshold

\* setTimeout(..., 500) at touchstart: the callback keeps the x of the touchstart
LongPressTimer(x) == <<[x |-> x, due |-> LongPressMs]>>

handleTouchStart(x, y) ==
    /\ ~touchActive /\ pendingOverpayment = <<>>
    /\ touchActive' = TRUE
    /\ touchHeld' = 0
    /\ touchMovedFar' = FALSE
    /\ pendingClick' = <<>>
    /\ touchStartPosRef' = <<[x |-> x, y |-> y]>>
    /\ LET overpayment == findOverpaymentAtPixel(x)
       IN  IF overpayment # <<>>
           THEN /\ chartDragState' = [isDragging |-> TRUE,
                                      overpaymentId |-> <<overpayment[1].id>>]
                /\ setDragging(overpayment[1].id, TRUE)
                /\ UNCHANGED longPressTimerRef
           ELSE /\ longPressTimerRef' = LongPressTimer(x)
                /\ UNCHANGED <<storeVars, chartDragState>>
    /\ UNCHANGED <<pendingOverpayment, isNewOverpayment, inputValue, error>>
    /\ TouchFrame

handleTouchMove(x, y) ==
    /\ touchActive
    /\ longPressTimerRef' =
          IF touchStartPosRef # <<>> /\ longPressTimerRef # <<>>
             /\ FarFrom(touchStartPosRef[1], x, y)
          THEN <<>> ELSE longPressTimerRef
    /\ touchMovedFar' = (touchMovedFar \/ FarFrom(touchStartPosRef[1], x, y))
    /\ IF chartDragState.isDragging /\ chartDragState.overpaymentId # <<>>
       THEN updateOverpayment(chartDragState.overpaymentId[1],
                              [periodIndex |-> pixelToPeriodIndex(x)])
       ELSE UNCHANGED storeVars
    /\ UNCHANGED <<chartVars, touchStartPosRef, touchActive, touchHeld, pendingClick>>
    /\ TouchFrame

\* touchend; the browser follows a tap (a short touch that stayed in place and
\* whose default was not prevented) with a click at the same position
handleTouchEnd ==
    /\ touchActive
    /\ longPressTimerRef' = <<>>
    /\ touchStartPosRef' = <<>>
    /\ IF chartDragState.isDragging /\ chartDragState.overpaymentId # <<>>
       THEN setDragging(chartDragState.overpaymentId[1], FALSE)
       ELSE UNCHANGED storeVars
    /\ chartDragState' = [isDragging |-> FALSE, overpaymentId |-> <<>>]
    /\ touchActive' = FALSE
    /\ pendingClick' = IF ~touchMovedFar /\ touchHeld < LongPressMs
                          /\ ~chartDragState.isDragging /\ pendingOverpayment = <<>>
                       THEN <<touchStartPosRef[1].x>> ELSE <<>>
    /\ UNCHANGED <<pendingOverpayment, isNewOverpayment, inputValue, error,
                   touchHeld, touchMovedFar>>
    /\ TouchFrame

\* the long-press timer fires
LongPressFire ==
    /\ longPressTimerRef # <<>>
    /\ touchHeld >= longPressTimerRef[1].due
    /\ longPressTimerRef' = <<>>
    /\ LET x == longPressTimerRef[1].x
       IN  IF x >= chartAreaLeft /\ x <= chartAreaRight
           THEN /\ pendingOverpayment' =
                       <<[id |-> 0, periodIndex |-> pixelToPeriodIndex(x),
                          amount |-> 0,
                          dateLabel |-> formatDateLabel(
                              periodIndexToDate(pixelToPeriodIndex(x), startDate[1])),
                          isDragging |-> FALSE]>>
                /\ isNewOverpayment' = TRUE
                /\ inputValue' = <<>>
                /\ error' = <<>>
           ELSE UNCHANGED <<pendingOverpayment, isNewOverpayment, inputValue, error>>
    /\ UNCHANGED <<storeVars, chartDragState, touchStartPosRef, touchActive, touchHeld,
                   touchMovedFar, pendingClick>>
    /\ TouchFrame

\* 100 ms pass with the finger on the canvas; a timer that is due fires first
TouchTick ==
    /\ touchActive
    /\ touchHeld < MaxHold
    /\ IF longPressTimerRef = <<>> THEN TRUE ELSE touchHeld < longPressTimerRef[1].due
    /\ touchHeld' = touchHeld + 100
    /\ UNCHANGED <<storeVars, chartVars, touchStartPosRef, longPressTimerRef, touchActive,
                   touchMovedFar, pendingClick>>
    /\ TouchFrame

\* the click that follows a tap reaches the canvas's onClick
SynthesizedClick ==
    /\ pendingClick # <<>>
    /\ pendingClick' = <<>>
    /\ ChartClicked(pendingClick[1])
    /\ UNCHANGED <<touchStartPosRef, longPressTimerRef, touchActive, touchHeld, touchMovedFar>>
    /\ TouchFrame

----------------------------------------------------------------------------
(* OverpaymentPopover and the chart's popover handlers *)

\* sanity ceiling of the amount field
AMOUNT_CEILING == 10000000

\* texts typed into the amount field
InputValues ==
    { <<>>, <<"0">>, <<"-", "5">>, <<"5">>, <<"x">>,
      NumberToString(AMOUNT_CEILING), NumberToString(AMOUNT_CEILING + 1) }

handleInputChange(value) ==
    /\ pendingOverpayment # <<>>
    /\ LET numValue == parseFloat(value)
       IN  IF value = <<>> \/ numValue = <<>>
           THEN /\ pendingOverpayment' = <<[pendingOverpayment[1] EXCEPT !.amount = 0]>>
                /\ IF pendingOverpayment[1].amount # 0
                   THEN PopoverReset([pendingOverpayment[1] EXCEPT !.amount = 0])
                   ELSE inputValue' = value /\ error' = <<>>
           ELSE IF numValue[1] < 0
           THEN /\ inputValue' = value
                /\ error' = <<"Amount must be positive">>
                /\ UNCHANGED pendingOverpayment
           ELSE IF numValue[1] > AMOUNT_CEILING
           THEN /\ inputValue' = value
                /\ error' = <<"Amount too large">>
                /\ UNCHANGED pendingOverpayment
           ELSE /\ pendingOverpayment' =
                       <<[pendingOverpayment[1] EXCEPT !.amount = numValue[1]]>>
                /\ IF pendingOverpayment[1].amount # numValue[1]
                   THEN PopoverReset([pendingOverpayment[1] EXCEPT !.amount = numValue[1]])
                   ELSE inputValue' = value /\ error' = <<>>
    /\ UNCHANGED <<formVars, pageVars, dealVars, storeVars, isNewOverpayment, chartDragState>>

handlePopoverConfirm ==
    IF pendingOverpayment = <<>> \/ pendingOverpayment[1].amount <= 0
    THEN UNCHANGED <<storeVars, pendingOverpayment>>
    ELSE /\ IF isNewOverpayment
            THEN /\ chartOverpayments' =
                        AddResult(pendingOverpayment[1].periodIndex,
                                  pendingOverpayment[1].amount).ops
                 /\ nextId' = AddResult(pendingOverpayment[1].periodIndex,
                                        pendingOverpayment[1].amount).ids
            ELSE /\ chartOverpayments' =
                        UpdateResult(pendingOverpayment[1].id,
                                     [amount |-> pendingOverpayment[1].amount])
                 /\ UNCHANGED nextId
         /\ pendingOverpayment' = <<>>
         /\ editingId' = <<>>
         /\ UNCHANGED startDate

\* the popover's handleConfirm, behind the confirm button and the Enter key
handleConfirm ==
    /\ pendingOverpayment # <<>>
    /\ LET numValue == parseFloat(inputValue)
       IN  IF inputValue = <<>> \/ numValue = <<>> \/ numValue[1] <= 0
           THEN /\ error' = <<"Please enter a valid amount">>
                /\ UNCHANGED <<storeVars, pendingOverpayment>>
           ELSE /\ handlePopoverConfirm
                /\ UNCHANGED error
    /\ UNCHANGED <<formVars, pageVars, dealVars, isNewOverpayment, chartDragState, inputValue>>

\* click on the Add/Update button, which is disabled while an error is shown
\* or the field is empty
ConfirmButton ==
    /\ error = <<>>
    /\ inputValue # <<>>
    /\ handleConfirm

\* Enter key in the amount field (handleKeyDown)
ConfirmEnter == handleConfirm

handlePopoverDelete ==
    /\ pendingOverpayment # <<>>
    /\ ~isNewOverpayment
    /\ chartOverpayments' = WithoutId(chartOverpayments, pendingOverpayment[1].id)
    /\ pendingOverpayment' = <<>>
    /\ editingId' = <<>>
    /\ UNCHANGED <<formVars, pageVars, dealVars, startDate, nextId, isNewOverpayment, chartDragState,
                   inputValue, error>>

\* variant of handlePopoverClose that stores the pending marker
handlePopoverClose_Commit ==
    /\ pendingOverpayment # <<>>
    /\ pendingOverpayment' = <<>>
    /\ editingId' = <<>>
    /\ chartOverpayments' =
          IF isNewOverpayment
          THEN SortByKey(Append(chartOverpayments, pendingOverpayment[1]), "periodIndex")
          ELSE UpdateResult(pendingOverpayment[1].id,
                            [amount |-> pendingOverpayment[1].amount])
    /\ UNCHANGED <<startDate, nextId>>
    /\ UNCHANGED <<formVars, pageVars, dealVars, isNewOverpayment, chartDragState, inputValue, error>>

\* close button, Cancel, Escape key or a click outside the popover
handlePopoverClose ==
    /\ pendingOverpayment # <<>>
    /\ pendingOverpayment' = <<>>
    /\ setEditingId(<<>>)
    /\ UNCHANGED <<formVars, pageVars, dealVars, isNewOverpayment, chartDragState, inputValue, error>>

----------------------------------------------------------------------------
(* Request assembler *)

\* the form values (watch())
currentValues ==
    [mortgage_amount |-> mortgage_amount, term_years |-> termYears,
     fixed_rate |-> fixed_rate, fixed_term_months |-> fixed_term_months,
     deals |-> deals]

transformFormDataToRequest(formData) ==
    LET firstDeal == IF Len(formData.deals) > 0 THEN <<formData.deals[1]>> ELSE <<>>
    IN  [amount |-> formData.mortgage_amount,
         term_years |-> formData.term_years,
         fixed_rate |-> IF firstDeal # <<>> THEN firstDeal[1].rate ELSE formData.fixed_rate,
         fixed_term_months |-> IF firstDeal # <<>> THEN firstDeal[1].end_month
                               ELSE formData.fixed_term_months,
         deals |-> formData.deals,
         overpayments |-> <<>>]

----------------------------------------------------------------------------
(* useDebouncedSimulation: one timer and the API mutation *)

debounceMs == 500

\* the hook's state: its timer and the calls issued to the API
hookState == [timeoutRef |-> timeoutRef, sent |-> sent, inFlight |-> inFlight]

\* mutation.mutate(request): the call is issued to the API
mutationMutate(h, request, seq, via) ==
    [h EXCEPT !.sent = Append(@, [seq |-> seq, request |-> request, via |-> via]),
              !.inFlight = @ \cup {seq}]

cancelPending(h) ==
    IF h.timeoutRef # <<>> THEN [h EXCEPT !.timeoutRef = <<>>] ELSE h

debouncedMutate(h, request, seq) ==
    [cancelPending(h) EXCEPT
        !.timeoutRef = <<[due |-> now + debounceMs, request |-> request, seq |-> seq]>>]

\* variant of mutate that leaves the pending timer alone
mutate_NoCancel(h, request, seq) ==
    mutationMutate(h, request, seq, "immediate")

mutate(h, request, seq) ==
    mutationMutate(cancelPending(h), request, seq, "immediate")

----------------------------------------------------------------------------
(* MortgageSimulation page *)

\* a non-null, non-empty string
Truthy(str) == str # <<>> /\ str[1] # <<>>

\* the effect on [chartOverpayments, simulationResults, lastSimulationRequest]:
\* the hook state and prevOverpaymentsRef after it ran
OverpaymentEffect(h, ops, results, lastReq, prev, seq) ==
    LET overpaymentString == ApiStringOf(ops)
    IN  IF results = <<>> \/ lastReq = <<>> THEN [hook |-> h, prev |-> prev]
        ELSE IF overpaymentString = prev THEN [hook |-> h, prev |-> prev]
        ELSE [hook |-> debouncedMutate(h,
                          [lastReq[1] EXCEPT !.overpayments =
                              IF Truthy(overpaymentString) THEN overpaymentString ELSE <<>>],
                          seq),
              prev |-> overpaymentString]

\* variant of handleFormSubmit that leaves the markers out of the request
handleFormSubmit_NoOverpayments(h, formData, seq) ==
    [hook |-> mutate(h, transformFormDataToRequest(formData), seq),
     lastReq |-> <<transformFormDataToRequest(formData)>>]

\* handleFormSubmit(formData): the base request and the hook state after it
handleFormSubmit(h, formData, seq) ==
    LET base == transformFormDataToRequest(formData)
        overpaymentString == toApiString
        request == IF Truthy(overpaymentString)
                   THEN [base EXCEPT !.overpayments = overpaymentString]
                   ELSE base
    IN  [hook |-> mutate(h, request, seq), lastReq |-> <<request>>]

\* a timer whose delay has elapsed
TimerDue(ref) == IF ref = <<>> THEN FALSE ELSE ref[1].due <= now

\* the calls waiting in a timer
PendingSeqs(ref) == IF ref = <<>> THEN {} ELSE {ref[1].seq}

\* the effect runs after a step that left the collection ops, the results and the
\* base request lastReq, on hook state h
RunEffect(h, ops, results, lastReq) ==
    LET eff == OverpaymentEffect(h, ops, results, lastReq, prevOverpaymentsRef, nextSeq + 1)
    IN  /\ timeoutRef' = eff.hook.timeoutRef
        /\ sent' = eff.hook.sent
        /\ inFlight' = eff.hook.inFlight
        /\ simulationError' = IF eff.hook.sent # sent THEN <<>> ELSE simulationError
        /\ prevOverpaymentsRef' = eff.prev
        /\ nextSeq' = IF eff.hook.timeoutRef # h.timeoutRef THEN nextSeq + 1 ELSE nextSeq

\* variant of Response that drops the response of a call older than the one on display
Response_DropStale(seq) ==
    /\ seq \in inFlight
    /\ \E i \in 1..Len(sent) :
          /\ sent[i].seq = seq
          /\ simulationResults' =
                 IF simulationResults # <<>> /\ simulationResults[1].seq > seq
                 THEN simulationResults
                 ELSE <<[seq |-> seq, request |-> sent[i].request]>>
    /\ RunEffect([hookState EXCEPT !.inFlight = @ \ {seq}], chartOverpayments,
                 simulationResults', lastSimulationRequest)
    /\ answered' = Append(answered, [seq |-> seq, ok |-> TRUE])
    /\ UNCHANGED <<dealVars, storeVars, chartVars, formVars, lastSimulationRequest, now,
                   lastEventAt, burstValid, superseded, pendingAtImmediate>>

\* onSuccess of the call seq: its response goes on display
Response(seq) ==
    /\ seq \in inFlight
    /\ \E i \in 1..Len(sent) :
          /\ sent[i].seq = seq
          /\ simulationResults' = <<[seq |-> seq, request |-> sent[i].request]>>
    /\ RunEffect([hookState EXCEPT !.inFlight = @ \ {seq}], chartOverpayments,
                 simulationResults', lastSimulationRequest)
    /\ answered' = Append(answered, [seq |-> seq, ok |-> TRUE])
    /\ UNCHANGED <<dealVars, storeVars, chartVars, formVars, lastSimulationRequest, now,
                   lastEventAt, burstValid, superseded, pendingAtImmediate>>

\* variant of ResponseError that takes the results off display
ResponseError_ClearResults(seq) ==
    /\ seq \in inFlight
    /\ inFlight' = inFlight \ {seq}
    /\ simulationError' = IF seq = sent[Len(sent)].seq THEN <<seq>> ELSE simulationError
    /\ simulationResults' = <<>>
    /\ answered' = Append(answered, [seq |-> seq, ok |-> FALSE])
    /\ UNCHANGED <<dealVars, storeVars, chartVars, formVars, lastSimulationRequest,
                   prevOverpaymentsRef, timeoutRef, sent, now, nextSeq,
                   lastEventAt, burstValid, superseded, pendingAtImmediate>>

\* onError of the call seq: logged only; the hook reports the error of its latest call
ResponseError(seq) ==
    /\ seq \in inFlight
    /\ inFlight' = inFlight \ {seq}
    /\ simulationError' = IF seq = sent[Len(sent)].seq THEN <<seq>> ELSE simulationError
    /\ answered' = Append(answered, [seq |-> seq, ok |-> FALSE])
    /\ UNCHANGED <<dealVars, storeVars, chartVars, formVars, lastSimulationRequest,
                   prevOverpaymentsRef, timeoutRef, simulationResults, sent, now, nextSeq,
                   lastEventAt, burstValid, superseded, pendingAtImmediate>>

\* the timer of the hook fires
HookTimerFire ==
    /\ TimerDue(timeoutRef)
    /\ LET h == mutationMutate([hookState EXCEPT !.timeoutRef = <<>>],
                               timeoutRef[1].request, timeoutRef[1].seq, "debounced")
       IN  /\ timeoutRef' = h.timeoutRef
           /\ sent' = h.sent
           /\ inFlight' = h.inFlight
           /\ simulationError' = <<>>
    /\ UNCHANGED <<dealVars, storeVars, chartVars, formVars, lastSimulationRequest,
                   prevOverpaymentsRef, simulationResults, now, nextSeq, lastEventAt, burstValid,
                   superseded, pendingAtImmediate, answered>>

\* a change of the marker collection on the page, followed by the effect
OverpaymentChange(storeOp) ==
    /\ storeOp
    /\ RunEffect(hookState, chartOverpayments', simulationResults, lastSimulationRequest)
    /\ superseded' = IF ApiStringOf(chartOverpayments') # toApiString
                     THEN superseded \cup PendingSeqs(debounceRef) \cup PendingSeqs(timeoutRef)
                     ELSE superseded
    /\ UNCHANGED <<dealVars, chartVars, formVars, lastSimulationRequest, simulationResults,
                   now, lastEventAt, burstValid, pendingAtImmediate, answered>>

----------------------------------------------------------------------------
(* MortgageForm: auto-submit *)

JSONStringify(data) ==
    <<data.mortgage_amount, data.term_years, data.fixed_rate, data.fixed_term_months,
      data.deals>>

\* mortgage_amount: positive, at least 1000
MortgageAmountValid(v) == v > 0 /\ v >= 1000

\* variant of debouncedSubmit whose timer has no delay
debouncedSubmit_NoDelay(ref, data, seq) ==
    <<[due |-> now, data |-> data, seq |-> seq]>>

\* debouncedSubmit(data): the timer that replaces the one in ref
debouncedSubmit(ref, data, seq) ==
    <<[due |-> now + 500, data |-> data, seq |-> seq]>>

\* the user sets mortgage_amount to v: the effect's cleanup clears the timer and, on
\* a valid form, debouncedSubmit starts a new one
\* the default form values (the fields of the form that are modelled)
defaultFormValues ==
    [mortgage_amount |-> 200000, term_years |-> 2500,
     fixed_rate |-> 165, fixed_term_months |-> 24,
     deals |-> <<[start_month |-> 0, end_month |-> 24, rate |-> 165]>>]

\* localStorage.setItem(STORAGE_KEY, JSON.stringify(values)): the item is well-formed JSON
\* of the values, whatever they are
saveValues(values) == <<[wellFormed |-> TRUE, data |-> <<values>>]>>

\* localStorage.getItem + JSON.parse in a try/catch: <<>> is null
loadSavedValues(item) ==
    IF item = <<>> THEN <<>>
    ELSE IF item[1].wellFormed THEN item[1].data
    ELSE <<>>

\* the form is mounted: initial values are the URL values, else the saved ones, else
\* the defaults; the first run of the auto-submit effect then saves the current values
MountForm(initialValues) ==
    /\ formValues = <<>>
    /\ LET savedValues == loadSavedValues(savedSnapshot)
           values == IF initialValues # <<>> THEN initialValues[1]
                     ELSE IF savedValues # <<>> THEN savedValues[1]
                     ELSE defaultFormValues
       IN  /\ formValues' = <<values>>
           /\ snapshotAtLoad' = savedSnapshot
           /\ urlValues' = initialValues
           /\ mortgage_amount' = values.mortgage_amount
           /\ termYears' = values.term_years
           /\ fixed_rate' = values.fixed_rate
           /\ fixed_term_months' = values.fixed_term_months
           /\ deals' = values.deals
           /\ isValid' = MortgageAmountValid(values.mortgage_amount)
           /\ savedSnapshot' = saveValues(values)
    /\ debounceRef' = <<>>
    /\ lastSubmittedRef' = <<>>
    /\ UNCHANGED <<dragState, storeVars, chartVars, pageVars, shareVars, utilVars, touchVars>>

FormChange(v) ==
    /\ v # mortgage_amount
    /\ mortgage_amount' = v
    /\ isValid' = MortgageAmountValid(v)
    /\ debounceRef' = IF isValid'
                      THEN debouncedSubmit(<<>>, [currentValues EXCEPT !.mortgage_amount = v],
                                           nextSeq + 1)
                      ELSE <<>>
    /\ nextSeq' = IF isValid' THEN nextSeq + 1 ELSE nextSeq
    /\ lastEventAt' = now
    /\ burstValid' = (isValid' /\ (now - lastEventAt < 500 => burstValid))
    /\ superseded' = superseded \cup PendingSeqs(debounceRef) \cup PendingSeqs(timeoutRef)
    /\ UNCHANGED <<dealVars, storeVars, chartVars, lastSubmittedRef, lastSimulationRequest,
                   prevOverpaymentsRef, timeoutRef, simulationResults, inFlight, sent, now,
                   pendingAtImmediate, loadVars, shareVars, utilVars, touchVars,
                   simulationError, answered>>

\* the timer of the form fires
FormTimerFire ==
    /\ TimerDue(debounceRef)
    /\ debounceRef' = <<>>
    /\ LET data == debounceRef[1].data
           valueString == JSONStringify(data)
       IN  IF valueString # lastSubmittedRef
           THEN LET sub == handleFormSubmit(hookState, data, debounceRef[1].seq)
                IN  /\ lastSubmittedRef' = valueString
                    /\ savedSnapshot' = saveValues(data)
                    /\ lastSimulationRequest' = sub.lastReq
                    /\ pendingAtImmediate' = pendingAtImmediate \cup PendingSeqs(timeoutRef)
                    /\ RunEffect(sub.hook, chartOverpayments, simulationResults, sub.lastReq)
           ELSE UNCHANGED <<lastSubmittedRef, lastSimulationRequest, pendingAtImmediate,
                            timeoutRef, sent, inFlight, prevOverpaymentsRef, nextSeq,
                            savedSnapshot, simulationError>>
    /\ UNCHANGED <<dealVars, storeVars, chartVars, mortgage_amount, isValid,
                   simulationResults, now, lastEventAt, burstValid, superseded,
                   formValues, snapshotAtLoad, urlValues, shareVars, utilVars, touchVars,
                   answered>>

\* time passes; a timer that is due fires first
Tick ==
    /\ ~TimerDue(debounceRef)
    /\ ~TimerDue(timeoutRef)
    /\ now' = now + 100
    /\ UNCHANGED <<dealVars, storeVars, chartVars, formVars, lastSimulationRequest,
                   prevOverpaymentsRef, timeoutRef, simulationResults, inFlight, sent,
                   nextSeq, lastEventAt, burstValid, superseded, pendingAtImmediate,
                   simulationError, answered>>

----------------------------------------------------------------------------
(* Share link: text is a sequence of character codes (UTF-16 code units); the
   characters modelled are in the Basic Multilingual Plane and no surrogates *)

\* the printable ASCII characters, codes 32 to 126 (the grave accent, 96, left empty)
AsciiTable ==
 <<
    " ", "!", "\"", "#", "$", "%", "&", "'", "(", ")", "*", "+", ",", "-", ".", "/", "0",
    "1", "2", "3", "4", "5", "6", "7", "8", "9", ":", ";", "<", "=", ">", "?", "@", "A",
    "B", "C", "D", "E", "F", "G", "H", "I", "J", "K", "L", "M", "N", "O", "P", "Q", "R",
    "S", "T", "U", "V", "W", "X", "Y", "Z", "[", "\\", "]", "^", "_", "", "a", "b", "c",
    "d", "e", "f", "g", "h", "i", "j", "k", "l", "m", "n", "o", "p", "q", "r", "s", "t",
    "u", "v", "w", "x", "y", "z", "{", "|", "}", "~"
 >>

CharCode(c) == 31 + (CHOOSE i \in 1..95 : AsciiTable[i] = c)

Codes(s) == [i \in 1..Len(s) |-> CharCode(s[i])]

IsAlphaNum(c) == c \in 48..57 \/ c \in 65..90 \/ c \in 97..122

HexChars == Codes(<<"0", "1", "2", "3", "4", "5", "6", "7", "8", "9", "A", "B", "C", "D", "E", "F">>)

\* %XX for the byte b
HexByte(b) == <<37, HexChars[(b \div 16) + 1], HexChars[(b % 16) + 1]>>

\* value of a hexadecimal digit, -1 for another character
HexValue(c) ==
    IF c \in 48..57 THEN c - 48
    ELSE IF c \in 65..70 THEN c - 55
    ELSE IF c \in 97..102 THEN c - 87
    ELSE -1

\* the byte written %XX at position i of s, -1 if there is none
PctByte(s, i) ==
    IF Len(s) >= i + 2 /\ s[i] = 37 /\ HexValue(s[i + 1]) >= 0 /\ HexValue(s[i + 2]) >= 0
    THEN 16 * HexValue(s[i + 1]) + HexValue(s[i + 2])
    ELSE -1

\* UTF-8 bytes of a code point of the Basic Multilingual Plane
Utf8(cp) ==
    IF cp < 128 THEN <<cp>>
    ELSE IF cp < 2048 THEN <<192 + (cp \div 64), 128 + (cp % 64)>>
    ELSE <<224 + (cp \div 4096), 128 + ((cp \div 64) % 64), 128 + (cp % 64)>>

\* characters encodeURIComponent leaves alone: A-Z a-z 0-9 - _ . ! ~ * ' ( )
UriUnreserved(c) == IsAlphaNum(c) \/ c \in {45, 95, 46, 33, 126, 42, 39, 40, 41}

\* concatenation of the sequences of parts
RECURSIVE Flatten(_)
Flatten(parts) ==
    IF Len(parts) = 0 THEN <<>>
    ELSE IF Len(parts) = 1 THEN parts[1]
    ELSE Flatten(SubSeq(parts, 1, Len(parts) \div 2))
         \o Flatten(SubSeq(parts, (Len(parts) \div 2) + 1, Len(parts)))

\* position i of s is one of the two digits of a %XX
InPct(s, i) == (i > 1 /\ PctByte(s, i - 1) >= 0) \/ (i > 2 /\ PctByte(s, i - 2) >= 0)

encodeURIComponent(s) ==
    Flatten([i \in 1..Len(s) |->
        LET c == s[i]
            b == Utf8(c)
        IN  IF UriUnreserved(c) THEN <<c>>
            ELSE IF Len(b) = 1 THEN HexByte(b[1])
            ELSE IF Len(b) = 2 THEN HexByte(b[1]) \o HexByte(b[2])
            ELSE HexByte(b[1]) \o HexByte(b[2]) \o HexByte(b[3])])

\* unescape: every %XX becomes the character of code XX
unescape(s) ==
    Flatten([i \in 1..Len(s) |->
        IF PctByte(s, i) >= 0 THEN <<PctByte(s, i)>>
        ELSE IF InPct(s, i) THEN <<>>
        ELSE <<s[i]>>])

\* characters escape leaves alone: A-Z a-z 0-9 @ * _ + - . /
EscapeUnreserved(c) == IsAlphaNum(c) \/ c \in {64, 42, 95, 43, 45, 46, 47}

\* escape on characters below 256
escape(s) ==
    Flatten([i \in 1..Len(s) |->
        IF EscapeUnreserved(s[i]) THEN <<s[i]>> ELSE HexByte(s[i])])

\* result of a conversion that can throw
Thrown == [ok |-> FALSE, text |-> <<>>]

Returned(text) == [ok |-> TRUE, text |-> text]

\* the bytes and characters of s: a %XX is [pct |-> TRUE, c |-> the byte], another
\* character [pct |-> FALSE, c |-> its code]
PctItems(s) ==
    Flatten([i \in 1..Len(s) |->
        IF PctByte(s, i) >= 0 THEN <<[pct |-> TRUE, c |-> PctByte(s, i)]>>
        ELSE IF InPct(s, i) THEN <<>>
        ELSE <<[pct |-> FALSE, c |-> s[i]]>>])

IsContinuation(items, j) == j >= 1 /\ j <= Len(items) /\ items[j].pct /\ items[j].c \in 128..191

IsLead2(items, j) == j >= 1 /\ j <= Len(items) /\ items[j].pct /\ items[j].c \in 194..223

IsLead3(items, j) == j >= 1 /\ j <= Len(items) /\ items[j].pct /\ items[j].c \in 224..239

\* the code point of the UTF-8 sequence of three bytes at j
CodePoint3(items, j) ==
    (items[j].c - 224) * 4096 + (items[j + 1].c - 128) * 64 + (items[j + 2].c - 128)

\* the item j is well placed in a UTF-8 text
WellFormedAt(items, j) ==
    IF ~items[j].pct \/ items[j].c < 128 THEN TRUE
    ELSE IF IsContinuation(items, j)
    THEN \/ IsLead2(items, j - 1)
         \/ IsLead3(items, j - 1)
         \/ (IsLead3(items, j - 2) /\ IsContinuation(items, j - 1))
    ELSE IF IsLead2(items, j) THEN IsContinuation(items, j + 1)
    ELSE IF IsLead3(items, j)
    THEN /\ IsContinuation(items, j + 1)
         /\ IsContinuation(items, j + 2)
         /\ CodePoint3(items, j) >= 2048
         /\ CodePoint3(items, j) \notin 55296..57343
    ELSE FALSE

\* decodeURIComponent: the %XX are read as UTF-8; a % without two digits or a
\* malformed sequence throws URIError
decodeURIComponent(s) ==
    LET items == PctItems(s)
    IN  IF \E i \in 1..Len(s) : s[i] = 37 /\ PctByte(s, i) < 0 THEN Thrown
        ELSE IF \E j \in 1..Len(items) : ~WellFormedAt(items, j) THEN Thrown
        ELSE Returned(Flatten([j \in 1..Len(items) |->
                 IF ~items[j].pct \/ items[j].c < 128 THEN <<items[j].c>>
                 ELSE IF IsContinuation(items, j) THEN <<>>
                 ELSE IF IsLead2(items, j)
                 THEN <<(items[j].c - 192) * 64 + (items[j + 1].c - 128)>>
                 ELSE <<CodePoint3(items, j)>>]))

Base64Chars ==
    Codes(<<
      "A", "B", "C", "D", "E", "F", "G", "H", "I", "J", "K", "L", "M", "N", "O", "P", "Q",
      "R", "S", "T", "U", "V", "W", "X", "Y", "Z", "a", "b", "c", "d", "e", "f", "g", "h",
      "i", "j", "k", "l", "m", "n", "o", "p", "q", "r", "s", "t", "u", "v", "w", "x", "y",
      "z", "0", "1", "2", "3", "4", "5", "6", "7", "8", "9", "+", "/"
    >>)

\* the byte at position i of b, 0 past its end
ByteAt(b, i) == IF i <= Len(b) THEN b[i] ELSE 0

\* four characters for every three bytes, the last group padded with =
Base64Encode(b) ==
    [k \in 1..(4 * ((Len(b) + 2) \div 3)) |->
        LET g == 3 * ((k - 1) \div 4)
            b1 == ByteAt(b, g + 1)
            b2 == ByteAt(b, g + 2)
            b3 == ByteAt(b, g + 3)
        IN  IF (k - 1) % 4 = 0 THEN Base64Chars[(b1 \div 4) + 1]
            ELSE IF (k - 1) % 4 = 1 THEN Base64Chars[((b1 % 4) * 16 + (b2 \div 16)) + 1]
            ELSE IF (k - 1) % 4 = 2
            THEN IF g + 2 > Len(b) THEN 61
                 ELSE Base64Chars[((b2 % 16) * 4 + (b3 \div 64)) + 1]
            ELSE IF g + 3 > Len(b) THEN 61
                 ELSE Base64Chars[(b3 % 64) + 1]]

\* btoa: throws on a character above 255
btoa(s) ==
    IF \E i \in 1..Len(s) : s[i] > 255 THEN Thrown ELSE Returned(Base64Encode(s))

IsBase64Char(c) == \E i \in 1..64 : Base64Chars[i] = c

Base64Value(c) == (CHOOSE i \in 1..64 : Base64Chars[i] = c) - 1

\* three bytes for every four characters; the bits left over are dropped
Base64Decode(d) ==
    [j \in 1..((Len(d) * 3) \div 4) |->
        LET g == 4 * ((j - 1) \div 3)
            v1 == Base64Value(d[g + 1])
            v2 == Base64Value(d[g + 2])
        IN  IF (j - 1) % 3 = 0 THEN v1 * 4 + (v2 \div 16)
            ELSE IF (j - 1) % 3 = 1 THEN (v2 % 16) * 16 + (Base64Value(d[g + 3]) \div 4)
            ELSE (Base64Value(d[g + 3]) % 4) * 64 + Base64Value(d[g + 4])]

IsAsciiWhitespace(c) == c \in {9, 10, 12, 13, 32}

\* atob: ASCII whitespace is removed, then one or two padding characters of a text
\* whose length is a multiple of 4; what is left must be base64 of a length that is
\* not 1 modulo 4
atob(s) ==
    LET stripped == SelectSeq(s, LAMBDA c : ~IsAsciiWhitespace(c))
        n == Len(stripped)
        pad == IF n % 4 = 0 /\ n > 0 /\ stripped[n] = 61
               THEN IF stripped[n - 1] = 61 THEN 2 ELSE 1
               ELSE 0
        body == SubSeq(stripped, 1, n - pad)
    IN  IF Len(body) % 4 = 1 \/ \E i \in 1..Len(body) : ~IsBase64Char(body[i])
        THEN Thrown
        ELSE Returned(Base64Decode(body))

\* URLSearchParams.get('d') on the query of a link: <<>> is null. In the value a
\* plus sign is a space and %XX is the character of code XX
FormUrlDecode(s) ==
    Flatten([i \in 1..Len(s) |->
        IF s[i] = 43 THEN <<32>>
        ELSE IF PctByte(s, i) >= 0 THEN <<PctByte(s, i)>>
        ELSE IF InPct(s, i) THEN <<>>
        ELSE <<s[i]>>])

LinkPrefix == Codes(<<"/", "m", "o", "r", "t", "g", "a", "g", "e", "?", "d", "=">>)

searchParamsGet(url) ==
    IF Len(url) >= Len(LinkPrefix) /\ SubSeq(url, 1, Len(LinkPrefix)) = LinkPrefix
    THEN <<FormUrlDecode(SubSeq(url, Len(LinkPrefix) + 1, Len(url)))>>
    ELSE <<>>

----------------------------------------------------------------------------
(* Share link: JSON of the form state. A JSON value is [t, v] with v a sequence:
   a number [t |-> "number", v |-> <<n>>], a string [t |-> "string", v |-> text],
   null [t |-> "null", v |-> <<>>]; an object is the set of its members [k, t, v].
   In the form state a field can also be undefined or NaN *)

JNumber(n) == [t |-> "number", v |-> <<n>>]

JString(s) == [t |-> "string", v |-> s]

JNull == [t |-> "null", v |-> <<>>]

JUndefined == [t |-> "undefined", v |-> <<>>]

JNaN == [t |-> "NaN", v |-> <<>>]

\* a string between quotes, the quote and the backslash escaped
QuoteChars(s) ==
    Flatten([i \in 1..Len(s) |->
        IF s[i] = 34 \/ s[i] = 92 THEN <<92, s[i]>> ELSE <<s[i]>>])

\* JSON.stringify of a field value: NaN is written null
JSONValueText(val) ==
    IF val.t = "number" THEN Codes(NumberToString(val.v[1]))
    ELSE IF val.t = "string" THEN <<34>> \o QuoteChars(val.v) \o <<34>>
    ELSE Codes(<<"n", "u", "l", "l">>)

JSONMemberText(key, val) == <<34>> \o Codes(key) \o <<34, 58>> \o JSONValueText(val)

\* JSON.stringify of the form state: the fields in the order of the object, an
\* undefined field left out
JSONStringifyForm(data) ==
    <<123>>
    \o (IF data.birth_year.t = "undefined" THEN <<>>
        ELSE JSONMemberText(<<"b", "i", "r", "t", "h", "_", "y", "e", "a", "r">>,
                            data.birth_year) \o <<44>>)
    \o JSONMemberText(<<"m", "o", "r", "t", "g", "a", "g", "e", "_",
                        "a", "m", "o", "u", "n", "t">>, data.mortgage_amount)
    \o <<44>>
    \o JSONMemberText(<<"n", "a", "m", "e">>, data.name)
    \o <<125>>

NoValue == [ok |-> FALSE, val |-> JNull, next |-> 0]

\* reads the characters of a string from position i, after the opening quote
RECURSIVE ScanString(_, _, _)
ScanString(t, i, acc) ==
    IF i > Len(t) \/ t[i] < 32 THEN NoValue
    ELSE IF t[i] = 34 THEN [ok |-> TRUE, val |-> JString(acc), next |-> i + 1]
    ELSE IF t[i] = 92
    THEN IF i + 1 <= Len(t) /\ t[i + 1] \in {34, 92, 47}
         THEN ScanString(t, i + 2, Append(acc, t[i + 1]))
         ELSE NoValue
    ELSE ScanString(t, i + 1, Append(acc, t[i]))

\* reads digits from position i
RECURSIVE ScanDigits(_, _, _)
ScanDigits(t, i, acc) ==
    IF i <= Len(t) /\ t[i] \in 48..57 THEN ScanDigits(t, i + 1, 10 * acc + (t[i] - 48))
    ELSE [ok |-> TRUE, val |-> JNumber(acc), next |-> i]

\* reads a string, an integer or null at position i
ParseValueAt(t, i) ==
    IF i > Len(t) THEN NoValue
    ELSE IF t[i] = 34 THEN ScanString(t, i + 1, <<>>)
    ELSE IF t[i] \in 48..57 THEN ScanDigits(t, i, 0)
    ELSE IF t[i] = 45
    THEN IF i + 1 <= Len(t) /\ t[i + 1] \in 48..57
         THEN LET r == ScanDigits(t, i + 1, 0)
              IN  [r EXCEPT !.val = JNumber(0 - r.val.v[1])]
         ELSE NoValue
    ELSE IF i + 3 <= Len(t) /\ SubSeq(t, i, i + 3) = Codes(<<"n", "u", "l", "l">>)
    THEN [ok |-> TRUE, val |-> JNull, next |-> i + 4]
    ELSE NoValue

NotParsed == [ok |-> FALSE, members |-> {}]

\* reads the members of an object from position i up to the closing brace, which
\* must end the text
RECURSIVE ParseMembers(_, _, _)
ParseMembers(t, i, acc) ==
    IF i > Len(t) \/ t[i] # 34 THEN NotParsed
    ELSE LET key == ScanString(t, i + 1, <<>>)
         IN  IF ~key.ok \/ key.next > Len(t) THEN NotParsed
             ELSE IF t[key.next] # 58 THEN NotParsed
             ELSE LET value == ParseValueAt(t, key.next + 1)
                      member == [k |-> key.val.v, t |-> value.val.t, v |-> value.val.v]
                      others == {m \in acc : m.k # key.val.v}
                  IN  IF ~value.ok \/ value.next > Len(t) THEN NotParsed
                      ELSE IF t[value.next] = 44
                      THEN ParseMembers(t, value.next + 1, others \cup {member})
                      ELSE IF t[value.next] = 125 /\ value.next = Len(t)
                      THEN [ok |-> TRUE, members |-> others \cup {member}]
                      ELSE NotParsed

\* JSON.parse of the text of an object; anything else does not give an object
JSONParse(t) ==
    IF Len(t) < 2 \/ t[1] # 123 THEN NotParsed
    ELSE IF Len(t) = 2 /\ t[2] = 125 THEN [ok |-> TRUE, members |-> {}]
    ELSE ParseMembers(t, 2, {})

\* variant of encodeFormDataToUrl that puts the base64 text in the link as it is
encodeFormDataToUrl_RawBase64(data) ==
    LET json == JSONStringifyForm(data)
        base64 == btoa(unescape(encodeURIComponent(json)))
    IN  IF base64.ok THEN <<LinkPrefix \o base64.text>> ELSE <<>>

\* the link for the form state, from the path on: <<>> if btoa throws
encodeFormDataToUrl(data) ==
    LET json == JSONStringifyForm(data)
        base64 == btoa(unescape(encodeURIComponent(json)))
    IN  IF base64.ok THEN <<LinkPrefix \o encodeURIComponent(base64.text)>> ELSE <<>>

\* the object read from the link: the empty object when there is no parameter or
\* when a step throws
decodeFormDataFromUrl(url) ==
    LET encoded == searchParamsGet(url)
    IN  IF encoded = <<>> THEN {}
        ELSE IF encoded[1] = <<>> THEN {}
        ELSE LET bytes == atob(encoded[1])
             IN  IF ~bytes.ok THEN {}
                 ELSE LET json == decodeURIComponent(escape(bytes.text))
                      IN  IF ~json.ok THEN {}
                          ELSE LET parsed == JSONParse(json.text)
                               IN  IF parsed.ok THEN parsed.members ELSE {}

----------------------------------------------------------------------------
(* Initial state shared by the specifications: nothing entered yet *)

InitTimeline ==
    /\ deals = <<>>
    /\ termYears \in TermYearsInputs
    /\ fixed_rate = 0
    /\ fixed_term_months = 0
    /\ dragState = <<>>

InitWidgets ==
    /\ chartOverpayments = <<>>
    /\ editingId = <<>>
    /\ nextId = 0
    /\ pendingOverpayment = <<>>
    /\ isNewOverpayment = FALSE
    /\ chartDragState = [isDragging |-> FALSE, overpaymentId |-> <<>>]
    /\ inputValue = <<>>
    /\ error = <<>>
    /\ mortgage_amount = 200000
    /\ periodArg = 0
    /\ dateResult = <<>>
    /\ indexResult = <<>>
    /\ touchStartPosRef = <<>>
    /\ longPressTimerRef = <<>>
    /\ touchActive = FALSE
    /\ touchHeld = 0
    /\ touchMovedFar = FALSE
    /\ pendingClick = <<>>
    /\ isValid = TRUE
    /\ debounceRef = <<>>
    /\ lastSubmittedRef = <<>>
    /\ timeoutRef = <<>>
    /\ simulationResults = <<>>
    /\ now = 0
    /\ lastEventAt = 0
    /\ burstValid = TRUE
    /\ superseded = {}
    /\ pendingAtImmediate = {}
    /\ simulationError = <<>>
    /\ answered = <<>>

\* no call built or sent
NoCalls ==
    /\ lastSimulationRequest = <<>>
    /\ prevOverpaymentsRef = <<>>
    /\ inFlight = {}
    /\ sent = <<>>
    /\ nextSeq = 0

\* nothing in localStorage, no form mounted
NoSnapshot ==
    /\ savedSnapshot = <<>>
    /\ formValues = <<>>
    /\ snapshotAtLoad = <<>>
    /\ urlValues = <<>>

\* no share link made or opened
NoShare ==
    /\ shareData = <<>>
    /\ shareUrl = <<>>
    /\ decoded = <<>>

\* no page mounted: no request built or sent
NoPage == NoCalls /\ NoSnapshot /\ NoShare

InitIdle == InitTimeline /\ InitWidgets /\ NoPage

----------------------------------------------------------------------------
(* Specification of the Deal Timeline *)

InitDeals ==
    /\ InitIdle
    /\ startDate = <<>>

NextDeals ==
    \/ \E i \in 1..MaxDeals, t \in {"move", "resize-start", "resize-end"},
          x \in 0..TimelineWidth : handleMouseDown(i, t, x)
    \/ \E x \in -1..(TimelineWidth + 1) : handleMouseMove(x)
    \/ handleMouseUp
    \/ \E i \in 1..MaxDeals : handleDeleteDeal(i)
    \/ \E r \in RateInputs : handleAddDeal(r)
    \/ \E i \in 1..MaxDeals, v \in MonthInputs :
          handleListFieldChange(i, "start_month", v)
    \/ \E i \in 1..MaxDeals, v \in MonthInputs :
          handleListFieldChange(i, "end_month", v)
    \/ \E i \in 1..MaxDeals, v \in RateInputs :
          handleListFieldChange(i, "rate", v)

SpecDeals == InitDeals /\ [][NextDeals]_vars

----------------------------------------------------------------------------
(* Specification of the chart: pointer and popover handlers over the store *)

\* markers the model lets generateId create
MaxIds == 2

StartDateInputs == {IsoDate(2025, 1, 1), IsoDate(2025, 3, 31)}

\* the chart is mounted: its effect has passed the form's start date to the store
InitChart ==
    /\ InitIdle
    /\ startDate = <<IsoDate(2025, 1, 1)>>

NextChart ==
    \/ \E x \in ChartXs : handleChartClick(x)
    \/ \E x \in ChartXs : handleChartMouseDown(x)
    \/ \E x \in ChartXs : handleChartMouseMove(x)
    \/ handleChartMouseUp
    \/ \E v \in InputValues : handleInputChange(v)
    \/ (nextId < MaxIds /\ ConfirmButton)
    \/ (nextId < MaxIds /\ ConfirmEnter)
    \/ handlePopoverDelete
    \/ handlePopoverClose

SpecChart == InitChart /\ [][NextChart]_vars

----------------------------------------------------------------------------
(* Specification of the store alone: its operations called with any arguments *)

AmountInputs == {0, 5, 12}

InitStore ==
    /\ InitIdle
    /\ startDate = <<>>

StoreSetStartDate(d) == setStartDate(d) /\ UNCHANGED <<dealVars, chartVars, formVars, pageVars>>
StoreAdd(p, a) ==
    /\ nextId < MaxIds \/ getOverpaymentAtPeriod(p) # <<>>
    /\ addOverpayment(p, a)
    /\ UNCHANGED <<dealVars, chartVars, formVars, pageVars>>
StoreUpdatePeriod(id, p) ==
    HasId(id) /\ updateOverpayment(id, [periodIndex |-> p]) /\ UNCHANGED <<dealVars, chartVars, formVars, pageVars>>
StoreUpdateAmount(id, a) ==
    HasId(id) /\ updateOverpayment(id, [amount |-> a]) /\ UNCHANGED <<dealVars, chartVars, formVars, pageVars>>
StoreRemove(id) == HasId(id) /\ removeOverpayment(id) /\ UNCHANGED <<dealVars, chartVars, formVars, pageVars>>
StoreSetDragging(id, flag) ==
    HasId(id) /\ setDragging(id, flag) /\ UNCHANGED <<dealVars, chartVars, formVars, pageVars>>
StoreClearAll == chartOverpayments # <<>> /\ clearAll /\ UNCHANGED <<dealVars, chartVars, formVars, pageVars>>

NextStore ==
    \/ \E d \in StartDateInputs : StoreSetStartDate(d)
    \/ \E p \in 1..MaxPeriod, a \in AmountInputs : StoreAdd(p, a)
    \/ \E id \in 1..MaxIds, p \in 1..MaxPeriod : StoreUpdatePeriod(id, p)
    \/ \E id \in 1..MaxIds, a \in AmountInputs : StoreUpdateAmount(id, a)
    \/ \E id \in 1..MaxIds : StoreRemove(id)
    \/ \E id \in 1..MaxIds, flag \in BOOLEAN : StoreSetDragging(id, flag)
    \/ StoreClearAll

SpecStore == InitStore /\ [][NextStore]_vars

----------------------------------------------------------------------------
(* Specification of the page: form changes, marker changes, timers, responses *)

MaxCalls == 4
MaxTime == 1000
MortgageAmountInputs == {200000, 250000, 500}
PagePeriodInputs == {1}
PageAmountInputs == {5}

\* the page after mount with the default form values: the initial request was built
\* from them and sent by the immediate path
InitPage ==
    /\ deals = <<[start_month |-> 0, end_month |-> 24, rate |-> 165]>>
    /\ termYears = 2500
    /\ fixed_rate = 165
    /\ fixed_term_months = 24
    /\ dragState = <<>>
    /\ InitWidgets
    /\ startDate = <<IsoDate(2025, 1, 1)>>
    /\ lastSimulationRequest = <<transformFormDataToRequest(currentValues)>>
    /\ prevOverpaymentsRef = <<>>
    /\ sent = <<[seq |-> 1, request |-> lastSimulationRequest[1], via |-> "immediate"]>>
    /\ inFlight = {1}
    /\ nextSeq = 1
    /\ savedSnapshot = saveValues(defaultFormValues)
    /\ formValues = <<defaultFormValues>>
    /\ snapshotAtLoad = <<>>
    /\ urlValues = <<>>
    /\ NoShare

PageFormChange(v) == nextSeq < MaxCalls /\ FormChange(v)

\* the chart, and with it every way to change a marker, is rendered only while
\* the page holds results
PageAddOverpayment(p, a) ==
    /\ simulationResults # <<>>
    /\ nextSeq < MaxCalls /\ nextId < MaxIds
    /\ OverpaymentChange(addOverpayment(p, a))

PageRemoveOverpayment(id) ==
    /\ simulationResults # <<>>
    /\ nextSeq < MaxCalls /\ HasId(id)
    /\ OverpaymentChange(removeOverpayment(id))

PageTick == now < MaxTime /\ Tick

NextPage ==
    \/ \E v \in MortgageAmountInputs : PageFormChange(v)
    \/ FormTimerFire
    \/ HookTimerFire
    \/ \E p \in PagePeriodInputs, a \in PageAmountInputs : PageAddOverpayment(p, a)
    \/ \E id \in 1..MaxIds : PageRemoveOverpayment(id)
    \/ \E seq \in 1..(MaxCalls + 2) : Response(seq)
    \/ \E seq \in 1..(MaxCalls + 2) : ResponseError(seq)
    \/ PageTick

SpecPage == InitPage /\ [][NextPage]_vars

----------------------------------------------------------------------------
(* Specification of the form's start: what it reads from localStorage *)

LoadAmountInputs == {200000, 250000, 500, 0}

ValuesInputs == {[defaultFormValues EXCEPT !.mortgage_amount = v] : v \in LoadAmountInputs}

\* what localStorage can hold under the key of the form: nothing, text that is not
\* JSON, or the JSON of some form values
SnapshotInputs ==
    {<<>>, <<[wellFormed |-> FALSE, data |-> <<>>]>>} \cup {saveValues(v) : v \in ValuesInputs}

InitLoad ==
    /\ InitTimeline
    /\ InitWidgets
    /\ startDate = <<>>
    /\ NoCalls
    /\ NoShare
    /\ savedSnapshot \in SnapshotInputs
    /\ formValues = <<>>
    /\ snapshotAtLoad = <<>>
    /\ urlValues = <<>>

\* the page is left or reloaded: the form is unmounted, localStorage stays
UnmountForm ==
    /\ formValues # <<>>
    /\ formValues' = <<>>
    /\ debounceRef' = <<>>
    /\ UNCHANGED <<dealVars, storeVars, chartVars, pageVars, mortgage_amount, isValid,
                   lastSubmittedRef, savedSnapshot, snapshotAtLoad, urlValues, shareVars,
                   utilVars, touchVars>>

\* between two visits the item is written by something else (another build of the
\* application, another tab, the user)
StorageWrite(item) ==
    /\ formValues = <<>>
    /\ savedSnapshot' = item
    /\ UNCHANGED <<dealVars, storeVars, chartVars, pageVars, mortgage_amount, isValid,
                   debounceRef, lastSubmittedRef, formValues, snapshotAtLoad, urlValues,
                   shareVars, utilVars, touchVars>>

NextLoad ==
    \/ \E iv \in {<<>>} \cup {<<v>> : v \in ValuesInputs} : MountForm(iv)
    \/ UnmountForm
    \/ \E item \in SnapshotInputs : StorageWrite(item)

SpecLoad == InitLoad /\ [][NextLoad]_vars

----------------------------------------------------------------------------
(* Specification of the share link *)

MaxNameLen == 2

\* characters of an account name: A " \ > ? and the non-ASCII pound sign, three
\* quarters and euro sign
NameChars == {65, 34, 92, 62, 63, 163, 190, 8364}

NameInputs == UNION {[1..n -> NameChars] : n \in 0..MaxNameLen}

ShareInputs ==
    [birth_year : {JUndefined, JNaN, JNumber(1985)},
     mortgage_amount : {JNumber(1200), JNumber(200000), JNaN},
     name : {JString(n) : n \in NameInputs}]

InitShare ==
    /\ InitTimeline
    /\ InitWidgets
    /\ startDate = <<>>
    /\ NoCalls
    /\ NoSnapshot
    /\ shareData \in {<<d>> : d \in ShareInputs}
    /\ shareUrl = <<>>
    /\ decoded = <<>>

\* the Share button: the link of the current values
handleShareLink ==
    /\ shareUrl = <<>>
    /\ shareUrl' = encodeFormDataToUrl(shareData[1])
    /\ shareUrl' # <<>>
    /\ UNCHANGED <<dealVars, storeVars, chartVars, pageVars, mortgage_amount, isValid,
                   debounceRef, lastSubmittedRef, loadVars, shareData, decoded,
                   utilVars, touchVars>>

\* the link is opened: the page reads the form state from it
urlParams ==
    /\ shareUrl # <<>>
    /\ decoded = <<>>
    /\ decoded' = <<decodeFormDataFromUrl(shareUrl[1])>>
    /\ UNCHANGED <<dealVars, storeVars, chartVars, pageVars, mortgage_amount, isValid,
                   debounceRef, lastSubmittedRef, loadVars, shareData, shareUrl,
                   utilVars, touchVars>>

NextShare == handleShareLink \/ urlParams

SpecShare == InitShare /\ [][NextShare]_vars

----------------------------------------------------------------------------
(* Specification of the Deal Timeline on a term longer than the 24 months of a *)
(* new deal: add, delete and the month fields of the companion list            *)

\* term_years typed in the form: 2.5 years
LongTermYearsInputs == {250}

\* values typed in the start/end month fields
LongMonthInputs == {0, 2, 25, 27, 30}

\* the form starts from its default deal (rate 1.65, written 165) and legacy fields
InitAdd ==
    /\ deals = <<[start_month |-> 0, end_month |-> 24, rate |-> 165]>>
    /\ termYears \in LongTermYearsInputs
    /\ fixed_rate = 165
    /\ fixed_term_months = 24
    /\ dragState = <<>>
    /\ InitWidgets
    /\ NoPage
    /\ startDate = <<>>

NextAdd ==
    \/ \E r \in RateInputs : handleAddDeal(r)
    \/ \E i \in 1..MaxDeals : handleDeleteDeal(i)
    \/ \E i \in 1..MaxDeals, v \in LongMonthInputs :
          handleListFieldChange(i, "start_month", v)
    \/ \E i \in 1..MaxDeals, v \in LongMonthInputs :
          handleListFieldChange(i, "end_month", v)

SpecAdd == InitAdd /\ [][NextAdd]_vars

----------------------------------------------------------------------------
(* Specification of the Deal Timeline under a form whose term changes *)

\* values typed in the field term_years: 1 year and 2.5 years
TermYearsChangeInputs == {100, 250}

\* the field term_years is edited: the form stores the value, the timeline gets it
\* as its prop termYears
TermYearsChange(v) ==
    /\ v # termYears
    /\ termYears' = v
    /\ UNCHANGED <<deals, fixed_rate, fixed_term_months, dragState,
                   storeVars, chartVars, formVars, pageVars>>

NextTerm ==
    \/ NextAdd
    \/ \E v \in TermYearsChangeInputs : TermYearsChange(v)

SpecTerm == InitAdd /\ [][NextTerm]_vars

----------------------------------------------------------------------------
(* Specification of the Deal Timeline with any rate typed *)

\* rates typed in the Add Deal dialog and in the list, in hundredths of a percent:
\* -1, 1.65, 15 and 20
AnyRateInputs == {-100, 165, 1500, 2000}

NextRate ==
    \/ \E r \in AnyRateInputs : handleAddDeal(r)
    \/ \E i \in 1..MaxDeals : handleDeleteDeal(i)
    \/ \E i \in 1..MaxDeals, v \in AnyRateInputs : handleListFieldChange(i, "rate", v)
    \/ \E i \in 1..MaxDeals, v \in LongMonthInputs :
          handleListFieldChange(i, "end_month", v)

SpecRate == InitAdd /\ [][NextRate]_vars

----------------------------------------------------------------------------
(* Properties of the Deal Timeline *)

Overlaps(a, b) == a.start_month < b.end_month /\ a.end_month > b.start_month

\* the deal of the collection with the smallest start_month
EarliestDeal ==
    deals[CHOOSE i \in 1..Len(deals) :
            \A j \in 1..Len(deals) : deals[i].start_month <= deals[j].start_month]

\* C1: no two distinct deals of the collection overlap, after any sequence of
\* add, move, resize-start, resize-end, editField and remove operations.
C1_NoOverlap ==
    \A i, j \in 1..Len(deals) : i # j => ~Overlaps(deals[i], deals[j])

\* a drag has been accepted that puts the dragged deal right against a neighbour
C1_Witness ==
    /\ dragState # <<>>
    /\ deals[dragState[1].dealIndex] # dragState[1].originalDeal
    /\ \E j \in 1..Len(deals) :
          /\ j # dragState[1].dealIndex
          /\ deals[j].start_month = deals[dragState[1].dealIndex].end_month

\* C3: with the term fixed, every deal satisfies
\* 0 <= start_month < end_month <= term_months after any sequence of operations.
C3_Bounds ==
    \A i \in 1..Len(deals) :
        /\ 0 <= deals[i].start_month
        /\ deals[i].start_month < deals[i].end_month
        /\ deals[i].end_month <= termMonths

\* a move has been accepted that pushed the deal to the right edge of the horizon
C3_Witness ==
    /\ dragState # <<>>
    /\ dragState[1].type = "move"
    /\ dragState[1].originalDeal.end_month < termMonths
    /\ deals[dragState[1].dealIndex].end_month = termMonths
    /\ Len(deals) >= 2

\* C5: whenever the collection is non-empty, the assembled request's fixed_rate
\* and fixed_term_months are the rate and end_month of the deal with the
\* smallest start_month.
C5_LegacyFromEarliestDeal ==
    Len(deals) > 0 =>
        /\ transformFormDataToRequest(currentValues).fixed_rate = EarliestDeal.rate
        /\ transformFormDataToRequest(currentValues).fixed_term_months = EarliestDeal.end_month

\* the move the specification describes: shift by delta, clamp to the horizon,
\* keep the duration and the rate
SpecMove(d, delta) ==
    LET duration == d.end_month - d.start_month
        start == Max(0, Min(termMonths - duration, d.start_month + delta))
    IN  [start_month |-> start, end_month |-> start + duration, rate |-> d.rate]

\* C10: an accepted move of a deal inside [0, term_months] shifts the deal of
\* the drag snapshot by the pointer displacement, clamped to the horizon, and
\* keeps its duration and its rate.
C10_MovePreservesDuration ==
    [][\A x \in -1..(TimelineWidth + 1) :
          (/\ dragState # <<>>
           /\ dragState[1].type = "move"
           /\ handleMouseMove(x)
           /\ deals' # deals)
          => LET ds == dragState[1]
                 delta == getMouseMonthPosition(x) - getMouseMonthPosition(ds.startX)
             IN  /\ deals'[ds.dealIndex] = SpecMove(ds.originalDeal, delta)
                 /\ \A j \in 1..Len(deals) : j # ds.dealIndex => deals'[j] = deals[j]]_vars

\* a move has been accepted that was clamped at the right edge, duration kept
C10_Witness ==
    /\ dragState # <<>>
    /\ dragState[1].type = "move"
    /\ deals[dragState[1].dealIndex] # dragState[1].originalDeal
    /\ deals[dragState[1].dealIndex].end_month = termMonths
    /\ deals[dragState[1].dealIndex].end_month - deals[dragState[1].dealIndex].start_month >= 2

\* a collection whose deals lie inside [0, term_months] and do not overlap
ValidDeals(ds) ==
    /\ \A i \in 1..Len(ds) :
          0 <= ds[i].start_month /\ ds[i].start_month < ds[i].end_month
                                 /\ ds[i].end_month <= termMonths
    /\ \A i, j \in 1..Len(ds) : i # j => ~Overlaps(ds[i], ds[j])

\* every month of [0, term_months) lies inside a deal
NoGap ==
    \A m \in 0..(termMonths - 1) :
        \E i \in 1..Len(deals) : deals[i].start_month <= m /\ m < deals[i].end_month

\* a pointer position whose move or resize would overlap another deal
RejectedPositions ==
    IF dragState = <<>> THEN {}
    ELSE {x \in -1..(TimelineWidth + 1) :
            ~ValidDeals([deals EXCEPT ![dragState[1].dealIndex] =
                            DraggedDeal(dragState[1], x)])}

\* C11: a rejected operation of the Deal Timeline - a move or resize that would
\* overlap, an editField whose result is not a valid collection, an add without
\* a gap - leaves the deals and the fields derived from them exactly as they were.
C11_RejectedLeavesDeals ==
    [][\/ UNCHANGED <<deals, fixed_rate, fixed_term_months>>
       \/ /\ \A x \in RejectedPositions : ~handleMouseMove(x)
          /\ \A i \in 1..Len(deals), f \in {"start_month", "end_month"}, v \in MonthInputs :
                ~ValidDeals([deals EXCEPT ![i][f] = v]) => ~handleListFieldChange(i, f, v)
          /\ \A r \in RateInputs : NoGap => ~handleAddDeal(r)]_vars

\* in a drag that already moved the deal, a pointer position is refused: the
\* collection stays at the last accepted position
C11_Witness ==
    /\ dragState # <<>>
    /\ deals[dragState[1].dealIndex] # dragState[1].originalDeal
    /\ RejectedPositions # {}
    /\ \E x \in RejectedPositions : ENABLED handleMouseMove(x)

Covered(m) == \E i \in 1..Len(deals) : deals[i].start_month <= m /\ m < deals[i].end_month

\* the first (lowest) gap [g_start, g_end) of [0, term_months)
FirstGapStart ==
    CHOOSE m \in 0..(termMonths - 1) : ~Covered(m) /\ \A k \in 0..(m - 1) : Covered(k)

FirstGapEnd ==
    LET later == {deals[i].start_month : i \in 1..Len(deals)} \cap (FirstGapStart..termMonths)
    IN  IF later = {} THEN termMonths
        ELSE CHOOSE e \in later : \A f \in later : e <= f

DealSet(ds) == {ds[i] : i \in 1..Len(ds)}

\* C12: when [0, term_months) has a gap, add(rate) inserts exactly one deal, from
\* the start of the first gap to min(g_end, g_start + 24), with the rate given,
\* and leaves every existing deal unchanged.
C12_AddFillsFirstGap ==
    [][\A r \in RateInputs :
          (~NoGap /\ handleAddDeal(r)) =>
             /\ Len(deals') = Len(deals) + 1
             /\ \E k \in 1..Len(deals') :
                   /\ deals'[k] = [start_month |-> FirstGapStart,
                                   end_month |-> Min(FirstGapEnd, FirstGapStart + 24),
                                   rate |-> r]
                   /\ DealSet(RemoveAt(deals', k)) = DealSet(deals)]_vars

\* a deal of 24 months placed in a gap that goes on after it
C12_Witness ==
    \E i \in 1..Len(deals) :
        /\ deals[i].end_month - deals[i].start_month = 24
        /\ deals[i].end_month < termMonths
        /\ ~Covered(deals[i].end_month)
        /\ Len(deals) >= 2

\* C15: once the last deal is removed, the legacy fields fixed_rate and
\* fixed_term_months are 0 and the request assembled next carries 0 for both.
C15_EmptyResetsLegacy ==
    [][\A i \in 1..Len(deals) :
          (handleDeleteDeal(i) /\ Len(deals') = 0) =>
             /\ fixed_rate' = 0
             /\ fixed_term_months' = 0
             /\ (transformFormDataToRequest(currentValues).fixed_rate)' = 0
             /\ (transformFormDataToRequest(currentValues).fixed_term_months)' = 0]_vars

\* every deal has been removed
C15_Witness ==
    /\ deals = <<>>
    /\ fixed_rate = 0
    /\ fixed_term_months = 0
    /\ transformFormDataToRequest(currentValues).fixed_term_months = 0

----------------------------------------------------------------------------
(* Properties of the overpayment markers *)

\* C2: after any sequence of marker operations, drag updates included, the
\* collection never holds two markers with the same period_index.
C2_OneMarkerPerPeriod ==
    \A i, j \in MarkerIndices :
        i # j => chartOverpayments[i].periodIndex # chartOverpayments[j].periodIndex

HasPositiveAmount == \E i \in MarkerIndices : chartOverpayments[i].amount > 0

\* C4: toApiString() returns null if and only if no marker has amount > 0.
C4_NullIffNoPositiveAmount ==
    (toApiString = <<>>) <=> ~HasPositiveAmount

\* C13: add(period_index, amount) at a period that holds a marker keeps the number
\* of markers, sets that marker's amount and nothing else, and makes it the
\* editing marker.
C13_AddAtOccupiedUpdates ==
    [][\A p \in 1..MaxPeriod, a \in AmountInputs :
          (getOverpaymentAtPeriod(p) # <<>> /\ StoreAdd(p, a)) =>
             /\ Len(chartOverpayments') = Len(chartOverpayments)
             /\ \E i \in MarkerIndices :
                   /\ chartOverpayments[i].periodIndex = p
                   /\ chartOverpayments'[i] = [chartOverpayments[i] EXCEPT !.amount = a]
                   /\ \A j \in MarkerIndices \ {i} : chartOverpayments'[j] = chartOverpayments[j]
                   /\ editingId' = <<chartOverpayments[i].id>>]_vars

\* two markers were added, then add was called at the period of the first one
C13_Witness ==
    /\ nextId = 2
    /\ Len(chartOverpayments) = 2
    /\ editingId = <<1>>
    /\ \E i \in MarkerIndices : chartOverpayments[i].id = 1 /\ chartOverpayments[i].amount = 12
    /\ C2_OneMarkerPerPeriod

\* the pieces of the string s between the occurrences of the character sep
RECURSIVE SplitOn(_, _)
SplitOn(s, sep) ==
    IF \A k \in 1..Len(s) : s[k] # sep THEN <<s>>
    ELSE LET k == CHOOSE n \in 1..Len(s) : s[n] = sep /\ \A m \in 1..(n - 1) : s[m] # sep
         IN  <<SubSeq(s, 1, k - 1)>> \o SplitOn(SubSeq(s, k + 1, Len(s)), sep)

\* the hypothetical parse of "m:a,m:a,..." into pairs <<period_index, amount>>
ParsePairs(str) ==
    IF str = <<>> THEN <<>>
    ELSE LET items == SplitOn(str, ",")
         IN  [i \in 1..Len(items) |->
                LET fields == SplitOn(items[i], ":")
                IN  IF Len(fields) = 2 /\ parseFloat(fields[1]) # <<>> /\ parseFloat(fields[2]) # <<>>
                    THEN <<parseFloat(fields[1])[1], parseFloat(fields[2])[1]>>
                    ELSE <<>>]

IsPositive(op) == op.amount > 0

\* C14: parsing the string of toApiString() gives exactly the markers with
\* amount > 0, each once, in ascending period_index order.
C14_ApiStringRoundTrip ==
    LET positive == SelectSeq(chartOverpayments, IsPositive)
        pairs == IF toApiString = <<>> THEN <<>> ELSE ParsePairs(toApiString[1])
    IN  /\ pairs = [i \in 1..Len(positive) |-> <<positive[i].periodIndex, positive[i].amount>>]
        /\ \A i, j \in 1..Len(pairs) : i < j => pairs[i][1] <= pairs[j][1]

\* two markers with a positive amount, the one created second placed first
C14_Witness ==
    /\ Len(chartOverpayments) = 2
    /\ chartOverpayments[1].id = 2
    /\ chartOverpayments[1].periodIndex < chartOverpayments[2].periodIndex
    /\ chartOverpayments[1].amount = 12
    /\ chartOverpayments[2].amount = 5
    /\ Len(ParsePairs(toApiString[1])) = 2

\* id, period index and amount of every marker of the collection
MarkerData ==
    [i \in MarkerIndices |-> <<chartOverpayments[i].id, chartOverpayments[i].periodIndex,
                               chartOverpayments[i].amount>>]

\* C16: opening a popover, typing in it and cancelling it leave the ids, period
\* indices and amounts of the collection as they were; the cancel discards the
\* pending marker, which never enters the collection.
C16_CancelLeavesCollection ==
    /\ [][(\/ \E x \in ChartXs : handleChartClick(x)
           \/ \E v \in InputValues : handleInputChange(v)
           \/ handlePopoverClose) => MarkerData' = MarkerData]_vars
    /\ [][handlePopoverClose => pendingOverpayment' = <<>>]_vars
    /\ [](\A i \in MarkerIndices : chartOverpayments[i].id # 0)

\* an add popover was cancelled with a value in it that cannot be confirmed,
\* over a collection that holds a marker
C16_Witness ==
    /\ pendingOverpayment = <<>>
    /\ isNewOverpayment
    /\ inputValue = <<"-", "5">>
    /\ error # <<>>
    /\ chartOverpayments # <<>>

\* the value shown in the popover field is one the popover must refuse
InvalidInput(value) ==
    \/ value = <<>>
    \/ parseFloat(value) = <<>>
    \/ parseFloat(value)[1] <= 0
    \/ parseFloat(value)[1] > AMOUNT_CEILING

\* C9: while the value in the popover is <= 0, non-numeric or above 10,000,000,
\* no confirm action (button or Enter key) changes the marker collection.
C9_InvalidInputBlocksConfirm ==
    [][((ConfirmButton \/ ConfirmEnter) /\ InvalidInput(inputValue))
          => UNCHANGED chartOverpayments]_vars

----------------------------------------------------------------------------
(* Properties of the debounced simulation *)

LastSent == sent[Len(sent)]

\* a step in which the immediate path issued a call
ImmediateCall == Len(sent') > Len(sent) /\ sent'[Len(sent')].via = "immediate"

\* C6: a call that was pending when a later form change or overpayment change
\* arrived is cancelled by that change, whichever source scheduled it: it is never
\* sent to the API
C6_SupersededNeverSent ==
    \A i \in 1..Len(sent) : sent[i].seq \notin superseded

C8_ImmediateCancelsPending ==
    /\ [][ImmediateCall =>
             /\ Len(sent') = Len(sent) + 1
             /\ PendingSeqs(timeoutRef) \cap PendingSeqs(timeoutRef') = {}]_vars
    /\ [](\A i \in 1..Len(sent) : sent[i].seq \notin pendingAtImmediate)

\* the immediate path ran while a debounced call was pending, and time went on
\* past the moment that call was due
C8_Witness ==
    /\ pendingAtImmediate # {}
    /\ LastSent.via = "immediate"
    /\ now >= lastEventAt + 500 + 200

----------------------------------------------------------------------------
(* Properties of the form's start *)

\* the part of mortgageFormSchema that is modelled
SchemaValid(values) == MortgageAmountValid(values.mortgage_amount)

InvalidSnapshot(item) ==
    \/ ~item.wellFormed
    \/ ~SchemaValid(item.data[1])

\* C17: a form mounted without URL values over a stored snapshot that is not JSON or
\* fails schema validation starts from the default values, never from the snapshot
C17_InvalidSnapshotNeverUsed ==
    (/\ formValues # <<>>
     /\ urlValues = <<>>
     /\ snapshotAtLoad # <<>>
     /\ InvalidSnapshot(snapshotAtLoad[1]))
    => formValues[1] = defaultFormValues

----------------------------------------------------------------------------
(* Properties of the responses *)

\* C18: a call that fails leaves the results on display as they were; the failure
\* sends nothing, schedules nothing and changes no request
C18_FailureKeepsResults ==
    [][\A seq \in inFlight :
          ResponseError(seq) =>
              /\ simulationResults' = simulationResults
              /\ sent' = sent
              /\ timeoutRef' = timeoutRef
              /\ lastSimulationRequest' = lastSimulationRequest]_vars

\* results were on display, then the latest call failed: both are shown
C18_Witness ==
    /\ simulationResults # <<>>
    /\ simulationError # <<>>
    /\ Len(answered) >= 2
    /\ ~answered[Len(answered)].ok
    /\ answered[Len(answered)].seq = simulationError[1]
    /\ \E i \in 1..(Len(answered) - 1) :
          answered[i].ok /\ answered[i].seq = simulationResults[1].seq

\* position in the log of the call seq
IndexOfCall(seq) == (CHOOSE i \in 1..Len(sent) : sent[i].seq = seq)

\* C20: the results on display are those of the response that arrived last, whatever
\* the order in which the calls were issued and whichever request is current
C20_ArrivalOrderWins ==
    \A i \in 1..Len(answered) :
        (answered[i].ok /\ \A j \in (i + 1)..Len(answered) : ~answered[j].ok)
        => /\ simulationResults # <<>>
           /\ simulationResults[1].seq = answered[i].seq
           /\ simulationResults[1].request = sent[IndexOfCall(answered[i].seq)].request

\* call #1 then call #2 were issued with different requests, #2 was answered first,
\* then #1: the results of #1 are on display although #2 is the current request
C20_Witness ==
    /\ Len(sent) >= 2
    /\ sent[1].seq < sent[2].seq
    /\ sent[1].request # sent[2].request
    /\ Len(answered) = 2
    /\ answered[1] = [seq |-> sent[2].seq, ok |-> TRUE]
    /\ answered[2] = [seq |-> sent[1].seq, ok |-> TRUE]
    /\ simulationResults = <<[seq |-> sent[1].seq, request |-> sent[1].request]>>

----------------------------------------------------------------------------
(* Properties of the share link *)

\* the JSON value of a field: NaN has none and is written null
AsJSONValue(val) == IF val.t = "NaN" THEN JNull ELSE val

\* the form state as a JSON object: an undefined field is not a member
AsJSONObject(data) ==
    {[k |-> Codes(<<"m", "o", "r", "t", "g", "a", "g", "e", "_",
                    "a", "m", "o", "u", "n", "t">>),
      t |-> AsJSONValue(data.mortgage_amount).t,
      v |-> AsJSONValue(data.mortgage_amount).v],
     [k |-> Codes(<<"n", "a", "m", "e">>), t |-> data.name.t, v |-> data.name.v]}
    \cup (IF data.birth_year.t = "undefined" THEN {}
          ELSE {[k |-> Codes(<<"b", "i", "r", "t", "h", "_", "y", "e", "a", "r">>),
                 t |-> AsJSONValue(data.birth_year).t,
                 v |-> AsJSONValue(data.birth_year).v]})

\* C19: what the page reads from the link made of a form state is that form state,
\* as JSON values
C19_ShareRoundTrip ==
    decoded # <<>> => decoded[1] = AsJSONObject(shareData[1])

\* the base64 text of the form state
Base64Of(data) == btoa(unescape(encodeURIComponent(JSONStringifyForm(data)))).text

\* a link was made and read back for a state whose name holds a quote and a
\* non-ASCII character and whose base64 text holds a plus sign or a slash
C19_Witness ==
    /\ decoded # <<>>
    /\ decoded[1] # {}
    /\ \E i \in 1..Len(shareData[1].name.v) : shareData[1].name.v[i] > 127
    /\ \E i \in 1..Len(shareData[1].name.v) : shareData[1].name.v[i] = 34
    /\ \E i \in 1..Len(Base64Of(shareData[1])) : Base64Of(shareData[1])[i] \in {43, 47}

----------------------------------------------------------------------------
(* Properties of the Deal Timeline under a term that changes *)

\* C21: also after term_years was changed, every deal satisfies
\* start_month >= 0 and end_month <= term_months
C21_BoundsAfterTermChange ==
    \A i \in 1..Len(deals) :
        /\ deals[i].start_month >= 0
        /\ deals[i].end_month <= termMonths

----------------------------------------------------------------------------
(* Properties of a drag session of the Deal Timeline *)

\* the deal a session asks for at pointer position x, from the snapshot taken at
\* pointer-down alone: its kind, the pointer position at pointer-down, the deal
\* as it was then
SnapshotTarget(snapshot, x) ==
    LET month == getMouseMonthPosition(x)
        d == snapshot.originalDeal
    IN  IF snapshot.type = "move"
        THEN SpecMove(d, month - getMouseMonthPosition(snapshot.startX))
        ELSE IF snapshot.type = "resize-start"
        THEN [start_month |-> Max(0, Min(d.end_month - 1, month)),
              end_month |-> d.end_month, rate |-> d.rate]
        ELSE [start_month |-> d.start_month,
              end_month |-> Min(termMonths, Max(d.start_month + 1, month)),
              rate |-> d.rate]

\* C22: the deal an accepted pointer-move produces is determined by the snapshot of
\* pointer-down and the pointer position, whatever the deal is now and whatever
\* pointer-moves came before
C22_MoveFromSnapshot ==
    [][\A x \in -1..(TimelineWidth + 1) :
          (/\ dragState # <<>>
           /\ deals' # deals
           /\ handleMouseMove(x))
          => deals'[dragState[1].dealIndex] = SnapshotTarget(dragState[1], x)]_vars

\* in a resize session a pointer-move was accepted: the deal differs from the
\* snapshot and further pointer-moves start from a changed deal
C22_Witness ==
    /\ dragState # <<>>
    /\ dragState[1].type = "resize-end"
    /\ dragState[1].dealIndex \in 1..Len(deals)
    /\ deals[dragState[1].dealIndex].start_month = dragState[1].originalDeal.start_month
    /\ deals[dragState[1].dealIndex].end_month > dragState[1].originalDeal.end_month + 1

----------------------------------------------------------------------------
(* Properties of a marker drag session *)

\* C23: outside a drag session no marker has isDragging set; during a session only
\* the dragged marker has it
C23_DraggingFlag ==
    \A i \in 1..Len(chartOverpayments) :
        chartOverpayments[i].isDragging
        => /\ chartDragState.isDragging
           /\ chartDragState.overpaymentId = <<chartOverpayments[i].id>>

----------------------------------------------------------------------------
(* Properties of the rate of a deal *)

\* C24: every deal has 0 <= rate <= 15 (percent; the model counts hundredths),
\* whatever rates are typed when a deal is added or its rate is edited
C24_RateInRange ==
    \A i \in 1..Len(deals) : 0 <= deals[i].rate /\ deals[i].rate <= 1500

\* C25: every marker's dateLabel is the label of its current period index under
\* the store's current start date.
C25_LabelMatchesPeriod ==
    \A i \in MarkerIndices :
        /\ startDate # <<>>
        /\ chartOverpayments[i].dateLabel =
              generateDateLabel(chartOverpayments[i].periodIndex, startDate[1])

\* a marker at period 2 while the start date is 31 March: the day April does
\* not have carries into May, and the label follows
C25_Witness ==
    /\ startDate = <<IsoDate(2025, 3, 31)>>
    /\ \E i \in MarkerIndices :
          /\ chartOverpayments[i].periodIndex = 2
          /\ chartOverpayments[i].dateLabel = "May 2025"

\* the request body handleExportCsv hands to exportCsv: none while there are no
\* results or no base request
exportCsvBody ==
    IF simulationResults = <<>> \/ lastSimulationRequest = <<>> THEN <<>>
    ELSE lastSimulationRequest

\* C26: the body sent for CSV export is the body of the simulation request
\* issued last, with the same overpayments string.
C26_ExportMatchesLastRequest ==
    exportCsvBody # <<>> => exportCsvBody[1] = sent[Len(sent)].request

\* no debounce timer is pending, neither the form's nor the hook's
NoTimerPending == debounceRef = <<>> /\ timeoutRef = <<>>

\* the request for the current form values and the current marker collection
CurrentRequest ==
    [transformFormDataToRequest(currentValues) EXCEPT
        !.overpayments = IF Truthy(toApiString) THEN toApiString ELSE <<>>]

----------------------------------------------------------------------------
(* Specification of the period index <-> date conversions of chartSetup *)

\* last period index converted
MaxPeriodArg == 14

\* simulation start dates: first, middle and last days of months of 31, 30, 29
\* and 28 days
ConversionStartDates ==
    {IsoDate(2025, m, d) : m \in {1, 3, 12}, d \in {1, 15, 28, 29, 30, 31}}
        \cup {IsoDate(2025, 4, 30), IsoDate(2025, 2, 28), IsoDate(2024, 2, 29)}

\* a start date and a period index are chosen
ChooseConversion(s, p) ==
    /\ startDate' = <<s>>
    /\ periodArg' = p
    /\ dateResult' = <<>>
    /\ indexResult' = <<>>
    /\ UNCHANGED <<dealVars, chartOverpayments, editingId, nextId, chartVars, pageVars,
                   mortgage_amount, isValid, debounceRef, lastSubmittedRef, loadVars,
                   shareVars, touchVars>>

ConvertToDate ==
    /\ periodArg >= 1 /\ dateResult = <<>>
    /\ dateResult' = <<periodIndexToDate(periodArg, startDate[1])>>
    /\ UNCHANGED <<dealVars, storeVars, chartVars, pageVars, periodArg, indexResult,
                   mortgage_amount, isValid, debounceRef, lastSubmittedRef, loadVars,
                   shareVars, touchVars>>

ConvertToIndex ==
    /\ dateResult # <<>> /\ indexResult = <<>>
    /\ indexResult' = <<dateToPeriodIndex(dateResult[1], startDate[1])>>
    /\ UNCHANGED <<dealVars, storeVars, chartVars, pageVars, periodArg, dateResult,
                   mortgage_amount, isValid, debounceRef, lastSubmittedRef, loadVars,
                   shareVars, touchVars>>

NextConversion ==
    \/ \E s \in ConversionStartDates, p \in 1..MaxPeriodArg : ChooseConversion(s, p)
    \/ ConvertToDate
    \/ ConvertToIndex

InitConversion == InitIdle /\ startDate = <<>>

SpecConversion == InitConversion /\ [][NextConversion]_vars

\* C28: for every period index p >= 1 and every start date, the date of p
\* converts back to p.
C28_PeriodRoundTrip ==
    indexResult # <<>> => indexResult[1] = periodArg

----------------------------------------------------------------------------
(* Specification of the chart on a touch device *)

\* touch positions on the canvas
TouchXs == {10, 20, 50}
TouchYs == {0, 10, 20}

NextTouch ==
    \/ \E x \in TouchXs, y \in TouchYs : handleTouchStart(x, y)
    \/ \E x \in TouchXs, y \in TouchYs : handleTouchMove(x, y)
    \/ handleTouchEnd
    \/ LongPressFire
    \/ TouchTick
    \/ SynthesizedClick
    \/ \E v \in InputValues : handleInputChange(v)
    \/ (nextId < MaxIds /\ ConfirmButton)
    \/ handlePopoverClose

SpecTouch == InitChart /\ [][NextTouch]_vars

\* a step that opens the add popover
OpensAddPopover ==
    pendingOverpayment = <<>> /\ pendingOverpayment' # <<>> /\ isNewOverpayment'

\* C29: on a touch device the add popover opens only while a touch is on the
\* canvas that has been held for the full 500 ms and has not moved more than
\* 10 px; a touch that moved further or ended earlier never opens it.
C29_LongPressOnly ==
    [][OpensAddPopover =>
         (touchActive /\ ~touchMovedFar /\ touchHeld >= LongPressMs)]_vars

\* the deals and the zones that hold month m
DealsHolding(m) ==
    {i \in 1..Len(deals) : deals[i].start_month <= m /\ m < deals[i].end_month}

ZonesHolding(m) ==
    {k \in 1..Len(svrZones) : svrZones[k].start <= m /\ m < svrZones[k].end}

\* C30: for a valid collection the variable-rate zones are the complement of the
\* deals over [0, term_months): every month lies in exactly one deal or exactly
\* one zone, and no zone is empty.
C30_ZonesAreComplement ==
    ValidDeals(deals) =>
        /\ \A m \in 0..(termMonths - 1) :
              Cardinality(DealsHolding(m)) + Cardinality(ZonesHolding(m)) = 1
        /\ \A k \in 1..Len(svrZones) : svrZones[k].start < svrZones[k].end

\* two deals with a gap between them and room after the second: two zones
C30_Witness ==
    /\ ValidDeals(deals)
    /\ Len(deals) >= 2
    /\ Len(svrZones) >= 2
    /\ svrZones[Len(svrZones)].end = termMonths
    /\ svrZones[1].start > 0

====
